---- MODULE Spec2Model ----
(***************************************************************************)
(* ThetAI usage quotas: the profiles quota columns and the four stored     *)
(* procedures check_and_reset_usage, get_user_limits,                      *)
(* increment_message_usage and increment_image_gen_usage, with the         *)
(* client's profile mutations, the promo upgrade and the two gateways that *)
(* call the procedures.  Time is counted in whole hours.                   *)
(*                                                                         *)
(* The specifications share the definitions of the procedures:             *)
(*   Spec        every RPC runs to completion (one transaction at a time), *)
(*               from a new account or one part-way through its life;      *)
(*   SpecLimits  get_user_limits on every kind of row;                     *)
(*   SpecAccount two sessions of one user mutate the profile and redeem    *)
(*               the promo code, the promo transaction statement by        *)
(*               statement;                                                *)
(*   SpecGateway chat and image requests served step by step;              *)
(*   SpecUsers   the RPCs of two users in any order;                       *)
(*   SpecRun     a run of increments from zero usage inside one window;    *)
(*   SpecConc    two sessions of one user, interleaved statement by        *)
(*               statement as READ COMMITTED transactions;                 *)
(*   SpecOtp     send-otp and verify-otp requests served query by query;   *)
(*   SpecPromo   two users validate and redeem promo codes;                *)
(*   SpecRetry   one call of the client's retryOperation helper;           *)
(*   SpecExpiry  an account upgraded to Plus before and after its expiry.  *)
(***************************************************************************)
EXTENDS Integers, FiniteSets, Sequences, TLC

VARIABLES profiles, now, last, steps, calls, txns, lock,
          cache, req, promo_codes, promo_code_uses, tcoin_transactions,
          otp_codes, otp_attempts, otp_reqs, otp_log, retry

\* The sign-in side of the application, which shares no table with the
\* rest: the one-time codes, the attempts counted by the rate limit, the
\* send-otp and verify-otp requests in flight with the record of what they
\* answered, and a call of the client's retry helper.
side == <<otp_codes, otp_attempts, otp_reqs, otp_log, retry>>

\* What the quota procedures never touch: the client sessions' cached
\* profile, the gateway request in flight, the promo tables and the TCoins
\* ledger.
rest ==
    <<cache, req, promo_codes, promo_code_uses, tcoin_transactions, side>>

vars == <<profiles, now, last, steps, calls, txns, lock, rest>>

(***************************************************************************)
(* Program constants.                                                      *)
(***************************************************************************)
SixHours == 6
DayHours == 24
FreeMessagesLimit == 50
FreeImagesPromptLimit == 10
FreeImagesGenLimit == 5
PlusMessagesLimit == 1000
PlusImagesPromptLimit == 100
PlusImagesGenLimit == 15
InitialTcoins == 100
PlusPrice == 500
MonthHours == 720
GameReward == 5

(***************************************************************************)
(* Bounds of the model.                                                    *)
(***************************************************************************)
MaxSteps == 4
MaxConcCalls == 2
MaxConcHours == 1
MaxRunStart == 1
MaxRunHours == 1
RunExtraCalls == 1
AccountAge == 60
MaxOver == 1
MaxLimitsSteps == 2
MaxAccountSteps == 3
MaxAccountHours == 1
MaxRequests == 2
MaxUsersSteps == 3

Users == {"u1"}
Procs == {"s1", "s2"}
NoTime == -1
None == "none"

\* The ThetAI models and the gateway models they stand for; NoModel is a
\* selected_model that is NULL or empty, OtherModel one that is no ThetAI
\* model at all.
FreeModel == "thetai-1.0-free"
NanoModel == "thetai-1.0-nano"
OmniModel == "thetai-1.0-omni"
NoModel == ""
OtherModel == "other"
FlashLite == "google/gemini-2.5-flash-lite"
Flash == "google/gemini-2.5-flash"
Pro == "google/gemini-2.5-pro"
FlashImage == "google/gemini-2.5-flash-image-preview"

(***************************************************************************)
(* The profiles row (the columns the quota procedures and the upgrade      *)
(* read or write).                                                         *)
(***************************************************************************)
NewProfile(t) ==
    [ is_plus |-> FALSE,
      tcoins |-> InitialTcoins,
      plus_expires_at |-> NoTime,
      messages_used |-> 0,
      images_in_prompts_used |-> 0,
      images_generated_today |-> 0,
      usage_reset_at |-> t,
      image_gen_reset_at |-> t,
      selected_model |-> FreeModel,
      display_name |-> "" ]

(***************************************************************************)
(* check_and_reset_usage: the two window tests and the two UPDATEs.        *)
(***************************************************************************)
\* Variant: the window counted as over as soon as any time has passed.
UsageWindowElapsedAnyTime(anchor, t) == anchor < t
UsageWindowElapsed(anchor, t) == anchor < t - SixHours

ImageGenWindowElapsed(anchor, t) == anchor < t - DayHours

\* Variant: the anchor moved on by one window instead of set to now().
ResetUsageSlidingAnchor(row, t) ==
    [row EXCEPT !.messages_used = 0,
                !.images_in_prompts_used = 0,
                !.usage_reset_at = row.usage_reset_at + SixHours]
ResetUsage(row, t) ==
    [row EXCEPT !.messages_used = 0,
                !.images_in_prompts_used = 0,
                !.usage_reset_at = t]

ResetImageGen(row, t) ==
    [row EXCEPT !.images_generated_today = 0,
                !.image_gen_reset_at = t]

\* The procedure run to completion on one row at transaction time t: both
\* tests use the anchors read by the SELECT at its start.
CheckAndResetUsage(row, t) ==
    LET r1 == IF UsageWindowElapsed(row.usage_reset_at, t)
              THEN ResetUsage(row, t) ELSE row
    IN  IF ImageGenWindowElapsed(row.image_gen_reset_at, t)
        THEN ResetImageGen(r1, t) ELSE r1

(***************************************************************************)
(* get_user_limits: the tier table and the jsonb it builds from the row    *)
(* its SELECT sees.                                                        *)
(***************************************************************************)
TierLimits(is_plus) ==
    IF is_plus
    THEN [ messages_limit |-> PlusMessagesLimit,
           images_prompt_limit |-> PlusImagesPromptLimit,
           images_gen_limit |-> PlusImagesGenLimit ]
    ELSE [ messages_limit |-> FreeMessagesLimit,
           images_prompt_limit |-> FreeImagesPromptLimit,
           images_gen_limit |-> FreeImagesGenLimit ]

\* Variant: each remaining value clamped at zero.
LimitsJsonClamped(row) ==
    LET lim == TierLimits(row.is_plus)
        atLeast0(n) == IF n < 0 THEN 0 ELSE n
    IN  [ is_plus |-> row.is_plus,
          messages_used |-> row.messages_used,
          messages_limit |-> lim.messages_limit,
          messages_remaining |->
              atLeast0(lim.messages_limit - row.messages_used),
          images_in_prompts_used |-> row.images_in_prompts_used,
          images_prompt_limit |-> lim.images_prompt_limit,
          images_prompt_remaining |->
              atLeast0(lim.images_prompt_limit - row.images_in_prompts_used),
          images_generated_today |-> row.images_generated_today,
          images_gen_limit |-> lim.images_gen_limit,
          images_gen_remaining |->
              atLeast0(lim.images_gen_limit - row.images_generated_today),
          usage_resets_at |-> row.usage_reset_at + SixHours,
          image_gen_resets_at |-> row.image_gen_reset_at + DayHours ]
LimitsJson(row) ==
    LET lim == TierLimits(row.is_plus)
    IN  [ is_plus |-> row.is_plus,
          messages_used |-> row.messages_used,
          messages_limit |-> lim.messages_limit,
          messages_remaining |-> lim.messages_limit - row.messages_used,
          images_in_prompts_used |-> row.images_in_prompts_used,
          images_prompt_limit |-> lim.images_prompt_limit,
          images_prompt_remaining |->
              lim.images_prompt_limit - row.images_in_prompts_used,
          images_generated_today |-> row.images_generated_today,
          images_gen_limit |-> lim.images_gen_limit,
          images_gen_remaining |->
              lim.images_gen_limit - row.images_generated_today,
          usage_resets_at |-> row.usage_reset_at + SixHours,
          image_gen_resets_at |-> row.image_gen_reset_at + DayHours ]

NoLimits == LimitsJson(NewProfile(0))

\* get_user_limits is declared STABLE: its own SELECT reads the snapshot of
\* the statement that called it, so the UPDATEs of the check_and_reset_usage
\* it performs first are not visible to it.  "snapshot" is the row as the
\* calling statement sees it; the row left in the table is the reset one.
GetUserLimitsRow(snapshot, t) == CheckAndResetUsage(snapshot, t)
GetUserLimitsJson(snapshot, t) == LimitsJson(snapshot)

(***************************************************************************)
(* increment_message_usage and increment_image_gen_usage.                  *)
(***************************************************************************)
Allowed == [allowed |-> TRUE, reason |-> "", resets_at |-> NoTime]
Refused(reason, resets_at) ==
    [allowed |-> FALSE, reason |-> reason, resets_at |-> resets_at]

\* Variants: the ceiling tested with < in place of <=.
MessagesExhaustedBeyond(limits) == limits.messages_remaining < 0
MessagesExhausted(limits) == limits.messages_remaining <= 0

ImagesPromptExhausted(limits) == limits.images_prompt_remaining <= 0

ImagesGenExhaustedBeyond(limits) == limits.images_gen_remaining < 0
ImagesGenExhausted(limits) == limits.images_gen_remaining <= 0

MessageUsageVerdict(limits, has_image) ==
    IF MessagesExhausted(limits)
    THEN Refused("messages_limit", NoTime)
    ELSE IF has_image /\ ImagesPromptExhausted(limits)
         THEN Refused("images_prompt_limit", NoTime)
         ELSE Allowed

\* Variant: the image in the prompt not counted.
ChargeMessageOnly(row, has_image) ==
    [row EXCEPT !.messages_used = row.messages_used + 1]
ChargeMessage(row, has_image) ==
    [row EXCEPT !.messages_used = row.messages_used + 1,
                !.images_in_prompts_used =
                    IF has_image THEN row.images_in_prompts_used + 1
                    ELSE row.images_in_prompts_used]

\* Variant: the refusal without its resets_at.
ImageGenVerdictNoResetTime(limits) ==
    IF ImagesGenExhausted(limits)
    THEN Refused("images_gen_limit", NoTime)
    ELSE Allowed
ImageGenVerdict(limits) ==
    IF ImagesGenExhausted(limits)
    THEN Refused("images_gen_limit", limits.image_gen_resets_at)
    ELSE Allowed

ChargeImageGen(row) ==
    [row EXCEPT !.images_generated_today = row.images_generated_today + 1]

\* Variant: the message charged before the image-prompt test.
IncrementMessageUsageChargeFirst(row, has_image, t) ==
    LET r1 == CheckAndResetUsage(row, t)
        limits == GetUserLimitsJson(r1, t)
        r2 == GetUserLimitsRow(r1, t)
    IN  IF MessagesExhausted(limits) THEN r2
        ELSE IF has_image /\ ImagesPromptExhausted(limits)
             THEN ChargeMessageOnly(r2, has_image)
             ELSE ChargeMessage(r2, has_image)
\* Variant: the call charged whatever the verdict.
IncrementMessageUsageChargeAlways(row, has_image, t) ==
    ChargeMessage(CheckAndResetUsage(row, t), has_image)
\* increment_message_usage run to completion: the row it leaves.
IncrementMessageUsageRow(row, has_image, t) ==
    LET r1 == CheckAndResetUsage(row, t)
        limits == GetUserLimitsJson(r1, t)
        r2 == GetUserLimitsRow(r1, t)
    IN  IF MessageUsageVerdict(limits, has_image).allowed
        THEN ChargeMessage(r2, has_image) ELSE r2

IncrementMessageUsageResult(row, has_image, t) ==
    MessageUsageVerdict(GetUserLimitsJson(CheckAndResetUsage(row, t), t),
                        has_image)

IncrementImageGenUsageRow(row, t) ==
    LET r1 == CheckAndResetUsage(row, t)
        limits == GetUserLimitsJson(r1, t)
        r2 == GetUserLimitsRow(r1, t)
    IN  IF ImageGenVerdict(limits).allowed THEN ChargeImageGen(r2) ELSE r2

IncrementImageGenUsageResult(row, t) ==
    ImageGenVerdict(GetUserLimitsJson(CheckAndResetUsage(row, t), t))

(***************************************************************************)
(* upgradeToPlusAccount: the UPDATE of the profiles row.                   *)
(***************************************************************************)
Upgraded(row, t) ==
    [row EXCEPT !.tcoins = row.tcoins - PlusPrice,
                !.is_plus = TRUE,
                !.plus_expires_at = t + MonthHours]

(***************************************************************************)
(* The promo_codes table as the migration seeds it: release26, 50% off, no *)
(* ceiling on its uses, no expiry.                                         *)
(***************************************************************************)
Release26 == "release26"
Release26Discount == 50
Null == NoTime

NoPromo ==
    [ discount_percent |-> 0, max_uses |-> Null, current_uses |-> 0,
      is_active |-> FALSE, expires_at |-> Null ]

SeededPromoCodes ==
    [ id \in {Release26} |->
        [ discount_percent |-> Release26Discount, max_uses |-> Null,
          current_uses |-> 0, is_active |-> TRUE, expires_at |-> Null ] ]

(***************************************************************************)
(* What the most recent operation was: its arguments, the row and the time *)
(* it started from, and what it returned.                                  *)
(***************************************************************************)
NoCall ==
    [ op |-> "none", user |-> "u1", has_image |-> FALSE, at |-> NoTime,
      pre |-> NewProfile(0), result |-> Allowed, limits |-> NoLimits,
      prev_op |-> "none", prev_user |-> "u1", prev_at |-> NoTime ]

Call(op, u, has_image, result, limits) ==
    [ op |-> op, user |-> u, has_image |-> has_image, at |-> now,
      pre |-> profiles[u], result |-> result, limits |-> limits,
      prev_op |-> last.op, prev_user |-> last.user, prev_at |-> last.at ]

NoCalls == [msg |-> 0, msg_allowed |-> 0, gen |-> 0, gen_allowed |-> 0]

IdleTxn ==
    [ pc |-> "idle", op |-> "none", user |-> "u1", has_image |-> FALSE,
      now |-> NoTime, wrote |-> FALSE, own |-> NewProfile(0),
      _usage_reset_at |-> NoTime, _image_gen_reset_at |-> NoTime,
      snapshot |-> NewProfile(0), pre |-> NewProfile(0),
      level |-> "outer", result |-> Allowed,
      _promo_id |-> None, _promo |-> NoPromo, _discounted_price |-> 0,
      used |-> FALSE ]

\* What a statement of transaction p reads (its own uncommitted version of
\* the row, else the committed row) and whether it can take the row lock.
Read(p) == IF txns[p].wrote THEN txns[p].own ELSE profiles[txns[p].user]
CanWrite(p) ==
    \A q \in Procs \ {p} : txns[q].wrote => txns[q].user # txns[p].user
\* A session still holding a row lock once p has let go of its own.
Released(p) ==
    IF \E q \in Procs \ {p} : txns[q].wrote
    THEN CHOOSE q \in Procs \ {p} : txns[q].wrote
    ELSE None

\* No request in flight at send-otp or verify-otp.
IdleOtpReq ==
    [ fn |-> "none", pc |-> "idle", email |-> "", code |-> "", type |-> "",
      otpRecord |-> 0, stored |-> FALSE, checked |-> FALSE,
      status |-> 0, valid |-> FALSE, error |-> "" ]

\* No call of retryOperation under way.
IdleRetry ==
    [ pc |-> "idle", maxRetries |-> 0, delay |-> 0, attempt |-> 0,
      lastError |-> "null", invoked |-> 0, refreshed |-> 0, slept |-> 0,
      outcomes |-> <<>>, result |-> "", thrown |-> "" ]

\* Nobody has asked for a code and no retry is under way.
InitSide ==
    /\ otp_codes = {}
    /\ otp_attempts = <<>>
    /\ otp_reqs = [p \in Procs |-> IdleOtpReq]
    /\ otp_log = [stored |-> 0, verified |-> <<>>, overlapped |-> FALSE]
    /\ retry = IdleRetry

\* No request in flight at a gateway.
IdleReq ==
    [ gateway |-> "none", pc |-> "idle", input |-> "ok", auth |-> "none",
      user |-> "u1", has_image |-> FALSE, is_plus |-> FALSE,
      selected_model |-> FreeModel, usage |-> "none", upstream |-> "ok",
      trace |-> <<>>, ai_model |-> "", status |-> 0, error |-> "" ]

\* The state the quota procedures leave alone, as it is after the
\* migrations: no client has fetched a profile, no request is in flight, the
\* promo table holds its seeded code and nobody has used it, the ledger is
\* empty.
InitRest ==
    /\ cache = [s \in Procs |-> NewProfile(0)]
    /\ req = IdleReq
    /\ promo_codes = SeededPromoCodes
    /\ promo_code_uses = {}
    /\ tcoin_transactions = <<>>
    /\ InitSide

(***************************************************************************)
(* The RPCs, each run to completion as one transaction.                    *)
(***************************************************************************)
\* Variant: the UPDATEs of the reset not confined to the caller's row.
RpcCheckAndResetUsageEveryRow(u) ==
    /\ profiles' = [v \in DOMAIN profiles |->
                       CheckAndResetUsage(profiles[v], now)]
    /\ last' = Call("check_and_reset_usage", u, FALSE, Allowed, NoLimits)
RpcCheckAndResetUsage(u) ==
    /\ profiles' = [profiles EXCEPT ![u] = CheckAndResetUsage(@, now)]
    /\ last' = Call("check_and_reset_usage", u, FALSE, Allowed, NoLimits)

RpcGetUserLimits(u) ==
    /\ profiles' = [profiles EXCEPT ![u] = GetUserLimitsRow(@, now)]
    /\ last' = Call("get_user_limits", u, FALSE, Allowed,
                    GetUserLimitsJson(profiles[u], now))

RpcIncrementMessageUsage(u, has_image) ==
    /\ profiles' = [profiles EXCEPT
                       ![u] = IncrementMessageUsageRow(@, has_image, now)]
    /\ last' = Call("increment_message_usage", u, has_image,
                    IncrementMessageUsageResult(profiles[u], has_image, now),
                    NoLimits)

RpcIncrementImageGenUsage(u) ==
    /\ profiles' = [profiles EXCEPT ![u] = IncrementImageGenUsageRow(@, now)]
    /\ last' = Call("increment_image_gen_usage", u, FALSE,
                    IncrementImageGenUsageResult(profiles[u], now), NoLimits)

\* upgradeToPlusAccount: refused below 500 TCoins, else one UPDATE.
UpgradeToPlusAccount(u) ==
    /\ profiles[u].tcoins >= PlusPrice
    /\ profiles' = [profiles EXCEPT ![u] = Upgraded(@, now)]
    /\ last' = Call("upgrade", u, FALSE, Allowed, NoLimits)

\* One hour passes.
Tick ==
    /\ now' = now + 1
    /\ last' = [NoCall EXCEPT !.op = "tick", !.at = now,
                              !.prev_op = last.op, !.prev_user = last.user,
                              !.prev_at = last.at]
    /\ UNCHANGED profiles

(***************************************************************************)
(* Spec: any sequence of RPCs, hours and upgrades, MaxSteps long, from a   *)
(* new account or from an account part-way through its life.               *)
(***************************************************************************)
UsageAges == {0, SixHours - 1, SixHours, SixHours + 1, 2 * SixHours + 1}
ImageGenAges == {0, DayHours - 1, DayHours, DayHours + 1}

\* Rows an account AccountAge hours old can hold, sampled at the ends of
\* each range: usage at none, one, one short of the tier's ceiling and the
\* ceiling; each window anywhere around its end.
LivedProfilesOf(plus) ==
    LET lim == TierLimits(plus)
    IN  { [ is_plus |-> plus,
            tcoins |-> coins,
            plus_expires_at |-> IF plus THEN MonthHours ELSE NoTime,
            messages_used |-> mu,
            images_in_prompts_used |-> ipu,
            images_generated_today |-> igt,
            usage_reset_at |-> AccountAge - a6,
            image_gen_reset_at |-> AccountAge - a24,
            selected_model |-> FreeModel,
            display_name |-> "" ] :
          coins \in IF plus THEN {0} ELSE {InitialTcoins, PlusPrice},
          mu \in {0, 1, lim.messages_limit - 1, lim.messages_limit},
          ipu \in {0, lim.images_prompt_limit - 1, lim.images_prompt_limit},
          igt \in {0, lim.images_gen_limit - 1, lim.images_gen_limit},
          a6 \in UsageAges, a24 \in ImageGenAges }

LivedProfiles ==
    { row \in LivedProfilesOf(FALSE) \cup LivedProfilesOf(TRUE) :
        row.images_in_prompts_used <= row.messages_used }

InitNew ==
    /\ now = 0
    /\ profiles = [u \in Users |-> NewProfile(0)]

InitLived ==
    /\ now = AccountAge
    /\ profiles \in [Users -> LivedProfiles]

Init ==
    /\ InitNew \/ InitLived
    /\ last = NoCall
    /\ steps = 0
    /\ calls = NoCalls
    /\ txns = [p \in Procs |-> IdleTxn]
    /\ lock = None
    /\ InitRest

Step(A) ==
    /\ steps < MaxSteps
    /\ A
    /\ steps' = steps + 1
    /\ UNCHANGED <<rest, calls, txns, lock>>

SeqCheckAndResetUsage == \E u \in Users :
    Step(RpcCheckAndResetUsage(u) /\ UNCHANGED now)
SeqGetUserLimits == \E u \in Users :
    Step(RpcGetUserLimits(u) /\ UNCHANGED now)
SeqIncrementMessageUsage == \E u \in Users, has_image \in BOOLEAN :
    Step(RpcIncrementMessageUsage(u, has_image) /\ UNCHANGED now)
SeqIncrementImageGenUsage == \E u \in Users :
    Step(RpcIncrementImageGenUsage(u) /\ UNCHANGED now)
SeqUpgradeToPlusAccount == \E u \in Users :
    Step(UpgradeToPlusAccount(u) /\ UNCHANGED now)
SeqTick == Step(Tick)

Next ==
    \/ SeqCheckAndResetUsage
    \/ SeqGetUserLimits
    \/ SeqIncrementMessageUsage
    \/ SeqIncrementImageGenUsage
    \/ SeqUpgradeToPlusAccount
    \/ SeqTick

Spec == Init /\ [][Next]_vars

(***************************************************************************)
(* Properties of one call, read off the record of the most recent          *)
(* operation: last.pre is the row before it, last.at the time it ran at.   *)
(***************************************************************************)
Row == profiles[last.user]
PreLimits == TierLimits(last.pre.is_plus)
UsageAge == last.at - last.pre.usage_reset_at
ImageGenAge == last.at - last.pre.image_gen_reset_at
QuotaOps == {"check_and_reset_usage", "get_user_limits",
             "increment_message_usage", "increment_image_gen_usage"}
ResetChecks == {"check_and_reset_usage", "get_user_limits"}

UsageGroupUnchanged ==
    /\ Row.messages_used = last.pre.messages_used
    /\ Row.images_in_prompts_used = last.pre.images_in_prompts_used
    /\ Row.usage_reset_at = last.pre.usage_reset_at

ImageGenGroupUnchanged ==
    /\ Row.images_generated_today = last.pre.images_generated_today
    /\ Row.image_gen_reset_at = last.pre.image_gen_reset_at

\* What the call itself charged on top of a zeroed 6h group.
ChargedMessages ==
    IF last.op = "increment_message_usage" /\ last.result.allowed
    THEN 1 ELSE 0
ChargedImagesInPrompts ==
    IF last.op = "increment_message_usage" /\ last.result.allowed
       /\ last.has_image
    THEN 1 ELSE 0

UsageGroupReset ==
    /\ Row.messages_used = ChargedMessages
    /\ Row.images_in_prompts_used = ChargedImagesInPrompts
    /\ Row.usage_reset_at = last.at

\* C3: a message with an image, sent inside the 6h window by a user whose
\* images_in_prompts_used equals the tier's images-in-prompt limit, is
\* refused; the reason is images_prompt_limit when messages_used is below the
\* message limit; neither counter is changed by the refused call.
C3_ImagePromptRefusedBeforeCharge ==
    ( /\ last.op = "increment_message_usage"
      /\ last.has_image
      /\ last.pre.images_in_prompts_used = PreLimits.images_prompt_limit
      /\ UsageAge < SixHours )
    => /\ ~last.result.allowed
       /\ last.pre.messages_used < PreLimits.messages_limit
            => last.result.reason = "images_prompt_limit"
       /\ Row.messages_used = last.pre.messages_used
       /\ Row.images_in_prompts_used = last.pre.images_in_prompts_used

C3_Witness ==
    /\ last.op = "increment_message_usage"
    /\ last.has_image
    /\ last.pre.images_in_prompts_used = PreLimits.images_prompt_limit
    /\ last.pre.messages_used < PreLimits.messages_limit
    /\ last.pre.messages_used > 0
    /\ UsageAge < SixHours
    /\ last.result = Refused("images_prompt_limit", NoTime)

\* C5: whenever now - usage_reset_at >= 6h (the instant of exactly 6h
\* included), one call of any quota operation zeroes messages_used and
\* images_in_prompts_used together (an allowed increment then counts its own
\* message) and sets usage_reset_at to now.
C5_ResetFromSixHoursOn ==
    (last.op \in QuotaOps /\ UsageAge >= SixHours) => UsageGroupReset

\* C6: a second check_and_reset_usage right after a first, with no time
\* elapsed and nothing in between, leaves the row exactly as the first left
\* it.
C6_CheckAndResetIdempotent ==
    ( /\ last.op = "check_and_reset_usage"
      /\ last.prev_op = "check_and_reset_usage"
      /\ last.prev_user = last.user
      /\ last.prev_at = last.at )
    => Row = last.pre

C6_Witness ==
    /\ last.op = "check_and_reset_usage"
    /\ last.prev_op = "check_and_reset_usage"
    /\ last.prev_user = last.user
    /\ last.prev_at = last.at
    /\ Row.usage_reset_at = last.at
    /\ Row.image_gen_reset_at = last.at
    /\ Row = last.pre

\* C7: check_and_reset_usage called with now - usage_reset_at < 6h leaves
\* messages_used, images_in_prompts_used and usage_reset_at unchanged.
C7_FreshUsageWindowUntouched ==
    (last.op = "check_and_reset_usage" /\ UsageAge < SixHours)
    => UsageGroupUnchanged

C7_Witness ==
    /\ last.op = "check_and_reset_usage"
    /\ UsageAge < SixHours
    /\ UsageAge > 0
    /\ last.pre.messages_used > 0
    /\ last.pre.images_in_prompts_used > 0
    /\ UsageGroupUnchanged

\* C8: the two windows reset independently.  A reset-check made when the 6h
\* window has elapsed (now - usage_reset_at >= 6h) and the 24h window has not
\* zeroes messages_used and images_in_prompts_used, stamps usage_reset_at and
\* leaves images_generated_today and image_gen_reset_at unchanged; one made
\* when only the 24h window has elapsed (now - image_gen_reset_at >= 24h)
\* zeroes images_generated_today, stamps image_gen_reset_at and leaves the 6h
\* group unchanged.
C8_WindowsResetIndependently ==
    last.op \in ResetChecks =>
      /\ (UsageAge >= SixHours /\ ImageGenAge < DayHours)
           => (UsageGroupReset /\ ImageGenGroupUnchanged)
      /\ (ImageGenAge >= DayHours /\ UsageAge < SixHours)
           => /\ Row.images_generated_today = 0
              /\ Row.image_gen_reset_at = last.at
              /\ UsageGroupUnchanged

\* C27: a limit refusal is never permanent: for a user whose message count
\* (resp. image generation count) stands at the limit, the first
\* increment_message_usage (resp. increment_image_gen_usage) call made once
\* the window has elapsed since the stored anchor returns allowed=true and
\* leaves the counter at 1.
C27_RefusalEndsWithTheWindow ==
    /\ ( /\ last.op = "increment_message_usage"
         /\ last.pre.messages_used
              >= TierLimits(last.pre.is_plus).messages_limit
         /\ UsageAge >= SixHours )
          => (last.result.allowed /\ Row.messages_used = 1)
    /\ ( /\ last.op = "increment_image_gen_usage"
         /\ last.pre.images_generated_today
              >= TierLimits(last.pre.is_plus).images_gen_limit
         /\ ImageGenAge >= DayHours )
          => (last.result.allowed /\ Row.images_generated_today = 1)

\* C9 as stated: a call of increment_message_usage refused with
\* messages_limit leaves every field of the row as it was.
C9_RefusedCallMutatesNothing ==
    ( /\ last.op = "increment_message_usage"
      /\ last.result = Refused("messages_limit", NoTime) )
    => Row = last.pre

\* C9 amended: a call of increment_message_usage refused with messages_limit
\* leaves messages_used, images_in_prompts_used, usage_reset_at and the
\* tier columns as they were; images_generated_today and image_gen_reset_at
\* are unchanged too unless more than 24h have passed since
\* image_gen_reset_at, and then they are 0 and now.
C9_RefusedCallOnlyResetsImageGen ==
    ( /\ last.op = "increment_message_usage"
      /\ last.result = Refused("messages_limit", NoTime) )
    => /\ last.pre.messages_used >= PreLimits.messages_limit
       /\ Row = IF ImageGenAge > DayHours
                THEN [last.pre EXCEPT !.images_generated_today = 0,
                                      !.image_gen_reset_at = last.at]
                ELSE last.pre

C9_Witness ==
    /\ last.op = "increment_message_usage"
    /\ last.result = Refused("messages_limit", NoTime)
    /\ last.pre.images_generated_today > 0
    /\ Row.images_generated_today = 0
    /\ Row.image_gen_reset_at = last.at
    /\ UsageGroupUnchanged

\* C10: in every state reached by RPCs run to completion, hours passing and
\* upgrades, each counter lies between 0 and the limit of the user's current
\* tier.
C10_CountersWithinTierLimits ==
    \A u \in DOMAIN profiles :
        LET lim == TierLimits(profiles[u].is_plus)
        IN  /\ 0 <= profiles[u].messages_used
            /\ profiles[u].messages_used <= lim.messages_limit
            /\ 0 <= profiles[u].images_in_prompts_used
            /\ profiles[u].images_in_prompts_used <= lim.images_prompt_limit
            /\ 0 <= profiles[u].images_generated_today
            /\ profiles[u].images_generated_today <= lim.images_gen_limit

C10_Witness ==
    /\ last.op = "increment_message_usage"
    /\ last.result.allowed
    /\ last.has_image
    /\ Row.messages_used = TierLimits(Row.is_plus).messages_limit
    /\ Row.images_in_prompts_used = TierLimits(Row.is_plus).images_prompt_limit
    /\ Row.is_plus

\* C11: what get_user_limits returns is the row as it is persisted when the
\* call returns: after a window has elapsed the returned counters are the
\* zeroed ones and each next-reset time is the new anchor plus the window
\* length.
C11_LimitsShowPersistedRow ==
    last.op = "get_user_limits" => last.limits = LimitsJson(Row)

(***************************************************************************)
(* SpecLimits: get_user_limits applied to every kind of row it can find,   *)
(* the rows concurrent increments have pushed past a ceiling included.     *)
(***************************************************************************)
LimitsProfilesOf(plus) ==
    LET lim == TierLimits(plus)
    IN  { [NewProfile(0) EXCEPT
             !.is_plus = plus,
             !.tcoins = IF plus THEN 0 ELSE InitialTcoins,
             !.plus_expires_at = IF plus THEN MonthHours ELSE NoTime,
             !.messages_used = mu,
             !.images_in_prompts_used = ipu,
             !.images_generated_today = igt,
             !.usage_reset_at = AccountAge - a6,
             !.image_gen_reset_at = AccountAge - a24] :
          mu \in {0, lim.messages_limit, lim.messages_limit + MaxOver},
          ipu \in {0, lim.images_prompt_limit,
                   lim.images_prompt_limit + MaxOver},
          igt \in {0, lim.images_gen_limit, lim.images_gen_limit + MaxOver},
          a6 \in UsageAges, a24 \in ImageGenAges }

LimitsProfiles ==
    { row \in LimitsProfilesOf(FALSE) \cup LimitsProfilesOf(TRUE) :
        row.images_in_prompts_used <= row.messages_used }

InitLimits ==
    /\ now = AccountAge
    /\ profiles \in [Users -> LimitsProfiles]
    /\ last = NoCall
    /\ steps = 0
    /\ calls = NoCalls
    /\ txns = [p \in Procs |-> IdleTxn]
    /\ lock = None
    /\ InitRest

LimitsStep(A) ==
    /\ steps < MaxLimitsSteps
    /\ A
    /\ steps' = steps + 1
    /\ UNCHANGED <<rest, calls, txns, lock>>

LimitsGetUserLimits == \E u \in Users :
    LimitsStep(RpcGetUserLimits(u) /\ UNCHANGED now)
LimitsTick == LimitsStep(Tick)

NextLimits ==
    \/ LimitsGetUserLimits
    \/ LimitsTick

SpecLimits == InitLimits /\ [][NextLimits]_vars

\* C12: for the row get_user_limits finds, whatever it holds, the jsonb
\* reports the tier table (free 50/10/5, plus 1000/100/15), the three
\* counters as stored, each remaining value as limit minus used (below zero
\* when used is above the limit), usage_resets_at = usage_reset_at + 6h and
\* image_gen_resets_at = image_gen_reset_at + 24h.
C12_LimitsReportTierTable ==
    last.op = "get_user_limits" =>
      LET json == last.limits
          row == last.pre
      IN  /\ json.is_plus = row.is_plus
          /\ <<json.messages_limit, json.images_prompt_limit,
               json.images_gen_limit>>
                = IF row.is_plus THEN <<1000, 100, 15>> ELSE <<50, 10, 5>>
          /\ json.messages_used = row.messages_used
          /\ json.images_in_prompts_used = row.images_in_prompts_used
          /\ json.images_generated_today = row.images_generated_today
          /\ json.messages_remaining
                = json.messages_limit - row.messages_used
          /\ json.images_prompt_remaining
                = json.images_prompt_limit - row.images_in_prompts_used
          /\ json.images_gen_remaining
                = json.images_gen_limit - row.images_generated_today
          /\ json.usage_resets_at = row.usage_reset_at + 6
          /\ json.image_gen_resets_at = row.image_gen_reset_at + 24

C12_Witness ==
    /\ last.op = "get_user_limits"
    /\ last.pre.is_plus
    /\ last.limits.messages_limit = 1000
    /\ last.limits.messages_remaining < 0
    /\ last.limits.images_gen_remaining < 0
    /\ last.limits.images_prompt_remaining = 0

(***************************************************************************)
(* The client's profile mutations (useProfile).  Each session holds the    *)
(* profile its last fetch returned; a mutation computes what it writes     *)
(* from that cached profile and sends one UPDATE of the columns it names,  *)
(* then (for TCoins) one INSERT into tcoin_transactions.  An UPDATE waits   *)
(* for the row lock of a transaction in flight.                            *)
(***************************************************************************)
AccountUser == "u1"

Transaction(u, amount, type) == [user |-> u, amount |-> amount, type |-> type]

NewBalance(cached, amount, type) ==
    IF type = "spend" THEN cached.tcoins - amount ELSE cached.tcoins + amount

\* The profile query (re)fetches the row.
FetchProfile(s, u) ==
    /\ cache' = [cache EXCEPT ![s] = profiles[u]]
    /\ UNCHANGED <<profiles, last, txns, lock, promo_codes, promo_code_uses,
                   tcoin_transactions>>

UpdateTcoins(s, u, amount, type) ==
    /\ NewBalance(cache[s], amount, type) >= 0
    /\ lock = None
    /\ profiles' = [profiles EXCEPT
                       ![u].tcoins = NewBalance(cache[s], amount, type)]
    /\ tcoin_transactions' =
         Append(tcoin_transactions,
                Transaction(u, IF type = "spend" THEN -amount ELSE amount,
                            type))
    /\ last' = Call("updateTcoins", u, FALSE, Allowed, NoLimits)
    /\ UNCHANGED <<cache, txns, lock, promo_codes, promo_code_uses>>

\* The row upgradeToPlusAccount leaves: the balance it writes is computed
\* from the cached profile.
UpgradedFromCache(row, cached, t) ==
    [row EXCEPT !.tcoins = cached.tcoins - PlusPrice,
                !.is_plus = TRUE,
                !.plus_expires_at = t + MonthHours]

SessionUpgradeToPlusAccount(s, u) ==
    /\ cache[s].tcoins >= PlusPrice
    /\ lock = None
    /\ profiles' = [profiles EXCEPT
                       ![u] = UpgradedFromCache(@, cache[s], now)]
    /\ tcoin_transactions' =
         Append(tcoin_transactions, Transaction(u, -PlusPrice, "spend"))
    /\ last' = Call("upgradeToPlusAccount", u, FALSE, Allowed, NoLimits)
    /\ UNCHANGED <<cache, txns, lock, promo_codes, promo_code_uses>>

UpdateSelectedModel(u, model) ==
    /\ lock = None
    /\ profiles' = [profiles EXCEPT ![u].selected_model = model]
    /\ last' = Call("updateSelectedModel", u, FALSE, Allowed, NoLimits)
    /\ UNCHANGED <<cache, txns, lock, promo_codes, promo_code_uses,
                   tcoin_transactions>>

\* The settings dialog: a Plus-only model is not offered to a profile that
\* is not Plus.
PlusOnly(model) == model \in {NanoModel, OmniModel}

HandleModelSelect(s, u, model) ==
    /\ model \in {FreeModel, NanoModel, OmniModel}
    /\ ~(PlusOnly(model) /\ ~cache[s].is_plus)
    /\ UpdateSelectedModel(u, model)

UpdateDisplayName(u, name) ==
    /\ lock = None
    /\ profiles' = [profiles EXCEPT ![u].display_name = name]
    /\ last' = Call("updateDisplayName", u, FALSE, Allowed, NoLimits)
    /\ UNCHANGED <<cache, txns, lock, promo_codes, promo_code_uses,
                   tcoin_transactions>>

(***************************************************************************)
(* apply_promo_and_upgrade, one READ COMMITTED transaction, statement by   *)
(* statement.  It takes no lock before its UPDATE of profiles.             *)
(***************************************************************************)
DiscountedPrice(discount_percent) ==
    PlusPrice - ((PlusPrice * discount_percent) \div 100)

PromoResult(success, reason) ==
    [allowed |-> success, reason |-> reason, resets_at |-> NoTime]

\* Variant: the upgrade starting the user's usage windows afresh.
PromoUpgradedWithFreshUsage(row, price, t) ==
    [row EXCEPT !.tcoins = row.tcoins - price,
                !.is_plus = TRUE,
                !.plus_expires_at = t + MonthHours,
                !.messages_used = 0,
                !.images_in_prompts_used = 0,
                !.usage_reset_at = t]
\* UPDATE profiles SET tcoins = tcoins - _discounted_price, ...
PromoUpgraded(row, price, t) ==
    [row EXCEPT !.tcoins = row.tcoins - price,
                !.is_plus = TRUE,
                !.plus_expires_at = t + MonthHours]

ApplyPromoBegin(p, u, promo_id) ==
    /\ txns[p].pc = "idle"
    /\ txns' = [txns EXCEPT ![p] =
                  [IdleTxn EXCEPT !.pc = "select_promo",
                                  !.op = "apply_promo_and_upgrade",
                                  !.user = u, !.now = now,
                                  !._promo_id = promo_id]]
    /\ UNCHANGED <<profiles, last, cache, lock, promo_codes, promo_code_uses,
                   tcoin_transactions>>

\* The function returns without having written anything.
ApplyPromoFail(p, reason) ==
    /\ txns' = [txns EXCEPT ![p] = IdleTxn]
    /\ lock' = Released(p)
    /\ last' = [ op |-> txns[p].op, user |-> txns[p].user,
                 has_image |-> FALSE, at |-> txns[p].now,
                 pre |-> IF txns[p].user \in DOMAIN profiles
                         THEN profiles[txns[p].user] ELSE NewProfile(0),
                 result |-> PromoResult(FALSE, reason),
                 limits |-> NoLimits, prev_op |-> last.op,
                 prev_user |-> last.user, prev_at |-> last.at ]
    /\ UNCHANGED <<profiles, cache, promo_codes, promo_code_uses,
                   tcoin_transactions>>

\* SELECT * INTO _promo FROM promo_codes WHERE id = _promo_id AND is_active.
ApplyPromoSelectPromo(p) ==
    /\ txns[p].pc = "select_promo"
    /\ IF /\ txns[p]._promo_id \in DOMAIN promo_codes
          /\ promo_codes[txns[p]._promo_id].is_active
       THEN /\ txns' = [txns EXCEPT
                          ![p]._promo = promo_codes[txns[p]._promo_id],
                          ![p].pc = "select_profile"]
            /\ UNCHANGED <<profiles, last, cache, lock, promo_codes,
                           promo_code_uses, tcoin_transactions>>
       ELSE ApplyPromoFail(p, "invalid_promo")

\* SELECT * INTO _profile FROM profiles; the price; the balance test.
ApplyPromoSelectProfile(p) ==
    /\ txns[p].pc = "select_profile"
    /\ LET _profile == Read(p)
           price == DiscountedPrice(txns[p]._promo.discount_percent)
       IN  IF txns[p].user \notin DOMAIN profiles
           THEN ApplyPromoFail(p, "user_not_found")
           ELSE IF _profile.tcoins < price
           THEN ApplyPromoFail(p, "insufficient_tcoins")
           ELSE /\ txns' = [txns EXCEPT ![p].snapshot = _profile,
                                        ![p]._discounted_price = price,
                                        ![p].pc = "update_profile"]
                /\ UNCHANGED <<profiles, last, cache, lock, promo_codes,
                               promo_code_uses, tcoin_transactions>>

\* UPDATE profiles: on the latest version of the row, under its lock.
ApplyPromoUpdateProfile(p) ==
    /\ txns[p].pc = "update_profile"
    /\ CanWrite(p)
    /\ lock' = p
    /\ txns' = [txns EXCEPT
                  ![p].own = PromoUpgraded(Read(p), txns[p]._discounted_price,
                                           txns[p].now),
                  ![p].wrote = TRUE,
                  ![p].pre = Read(p),
                  ![p].pc = "insert_use"]
    /\ UNCHANGED <<profiles, last, cache, promo_codes, promo_code_uses,
                   tcoin_transactions>>

\* Variant: promo_code_uses without its UNIQUE(user_id, promo_code_id).
ApplyPromoInsertUseUnconstrained(p) ==
    /\ txns[p].pc = "insert_use"
    /\ txns' = [txns EXCEPT ![p].used = TRUE, ![p].pc = "update_promo"]
    /\ UNCHANGED <<profiles, last, cache, lock, promo_codes,
                   promo_code_uses, tcoin_transactions>>

\* INSERT INTO promo_code_uses: UNIQUE(user_id, promo_code_id); a violation
\* raises, and the transaction is rolled back.
ApplyPromoInsertUse(p) ==
    /\ txns[p].pc = "insert_use"
    /\ IF <<txns[p].user, txns[p]._promo_id>> \in promo_code_uses
       THEN ApplyPromoFail(p, "unique_violation")
       ELSE /\ txns' = [txns EXCEPT ![p].used = TRUE,
                                    ![p].pc = "update_promo"]
            /\ UNCHANGED <<profiles, last, cache, lock, promo_codes,
                           promo_code_uses, tcoin_transactions>>

\* UPDATE promo_codes SET current_uses = current_uses + 1; INSERT INTO
\* tcoin_transactions; RETURN: the transaction commits.
ApplyPromoCommit(p) ==
    /\ txns[p].pc = "update_promo"
    /\ profiles' = [profiles EXCEPT ![txns[p].user] = txns[p].own]
    /\ promo_code_uses' =
         promo_code_uses \cup {<<txns[p].user, txns[p]._promo_id>>}
    /\ promo_codes' = [promo_codes EXCEPT
                         ![txns[p]._promo_id].current_uses = @ + 1]
    /\ tcoin_transactions' =
         Append(tcoin_transactions,
                Transaction(txns[p].user, -txns[p]._discounted_price,
                            "spend"))
    /\ lock' = Released(p)
    /\ last' = [ op |-> txns[p].op, user |-> txns[p].user,
                 has_image |-> FALSE, at |-> txns[p].now,
                 pre |-> txns[p].pre,
                 result |-> PromoResult(TRUE, ""),
                 limits |-> NoLimits, prev_op |-> last.op,
                 prev_user |-> last.user, prev_at |-> last.at ]
    /\ txns' = [txns EXCEPT ![p] = IdleTxn]
    /\ UNCHANGED cache

(***************************************************************************)
(* SpecAccount: two sessions of one user mutate the profile and redeem the *)
(* promo code while the user's messages are charged and time passes.       *)
(***************************************************************************)
AccountProfiles ==
    { [NewProfile(0) EXCEPT !.tcoins = coins,
                            !.messages_used = 1,
                            !.images_in_prompts_used = 1,
                            !.images_generated_today = 1] :
      coins \in {InitialTcoins, PlusPrice} }

InitAccount ==
    /\ now = 1
    /\ profiles \in [{AccountUser} -> AccountProfiles]
    /\ cache = [s \in Procs |-> profiles[AccountUser]]
    /\ last = NoCall
    /\ steps = 0
    /\ calls = NoCalls
    /\ txns = [p \in Procs |-> IdleTxn]
    /\ lock = None
    /\ req = IdleReq
    /\ promo_codes = SeededPromoCodes
    /\ promo_code_uses = {}
    /\ tcoin_transactions = <<>>
    /\ InitSide

\* A call some session makes.
AccountStep(A) ==
    /\ steps < MaxAccountSteps
    /\ A
    /\ steps' = steps + 1
    /\ UNCHANGED <<now, calls, req, side>>

\* A statement of a call already counted, or a refetch.
AccountMove(A) ==
    /\ A
    /\ UNCHANGED <<now, steps, calls, req, side>>

AccountFetchProfile == \E s \in Procs :
    AccountMove(txns[s].pc = "idle" /\ FetchProfile(s, AccountUser))
AccountUpdateTcoins ==
    \E s \in Procs, amount \in {GameReward, InitialTcoins},
       type \in {"earn", "spend"} :
        AccountStep(/\ txns[s].pc = "idle"
                    /\ UpdateTcoins(s, AccountUser, amount, type))
AccountUpgradeToPlusAccount == \E s \in Procs :
    AccountStep(/\ txns[s].pc = "idle"
                /\ SessionUpgradeToPlusAccount(s, AccountUser))
AccountHandleModelSelect == \E s \in Procs, model \in {NanoModel} :
    AccountStep(/\ txns[s].pc = "idle"
                /\ HandleModelSelect(s, AccountUser, model))
AccountUpdateDisplayName == \E s \in Procs :
    AccountStep(/\ txns[s].pc = "idle"
                /\ UpdateDisplayName(AccountUser, "name"))
AccountApplyPromoBegin == \E p \in Procs :
    AccountStep(ApplyPromoBegin(p, AccountUser, Release26))
AccountApplyPromoStatement == \E p \in Procs :
    AccountMove(\/ ApplyPromoSelectPromo(p)
                \/ ApplyPromoSelectProfile(p)
                \/ ApplyPromoUpdateProfile(p)
                \/ ApplyPromoInsertUse(p)
                \/ ApplyPromoCommit(p))
AccountIncrementMessageUsage ==
    AccountStep(/\ lock = None
                /\ RpcIncrementMessageUsage(AccountUser, TRUE)
                /\ UNCHANGED <<cache, txns, lock, promo_codes,
                               promo_code_uses, tcoin_transactions>>)
AccountTick ==
    /\ now <= MaxAccountHours
    /\ Tick
    /\ UNCHANGED <<rest, steps, calls, txns, lock>>

NextAccount ==
    \/ AccountFetchProfile
    \/ AccountUpdateTcoins
    \/ AccountUpgradeToPlusAccount
    \/ AccountHandleModelSelect
    \/ AccountUpdateDisplayName
    \/ AccountApplyPromoBegin
    \/ AccountApplyPromoStatement
    \/ AccountIncrementMessageUsage
    \/ AccountTick

SpecAccount == InitAccount /\ [][NextAccount]_vars

QuotaColumns(row) ==
    <<row.messages_used, row.images_in_prompts_used,
      row.images_generated_today, row.usage_reset_at, row.image_gen_reset_at>>

AccountOps == {"updateTcoins", "upgradeToPlusAccount", "updateSelectedModel",
               "updateDisplayName", "apply_promo_and_upgrade"}
UpgradeOps == {"upgradeToPlusAccount", "apply_promo_and_upgrade"}

\* C13: every step that is not a Quota Engine operation (updateTcoins,
\* upgradeToPlusAccount, apply_promo_and_upgrade, updateSelectedModel,
\* updateDisplayName, a refetch) leaves messages_used,
\* images_in_prompts_used, images_generated_today, usage_reset_at and
\* image_gen_reset_at of every row as they were; of what get_user_limits
\* reports for the user, an upgrade changes only the tier, the three limits
\* and with them the remaining values.
C13_OnlyQuotaOpsTouchQuotaColumns ==
    [][ last'.op \notin QuotaOps =>
          \A u \in DOMAIN profiles :
            /\ QuotaColumns(profiles'[u]) = QuotaColumns(profiles[u])
            /\ ( /\ last'.op \in UpgradeOps
                 /\ last'.user = u
                 /\ profiles'[u] # profiles[u] )
               => LET before == LimitsJson(profiles[u])
                      after == LimitsJson(profiles'[u])
                  IN  after =
                        [before EXCEPT
                           !.is_plus = TRUE,
                           !.messages_limit = PlusMessagesLimit,
                           !.images_prompt_limit = PlusImagesPromptLimit,
                           !.images_gen_limit = PlusImagesGenLimit,
                           !.messages_remaining =
                               PlusMessagesLimit - before.messages_used,
                           !.images_prompt_remaining =
                               PlusImagesPromptLimit
                                 - before.images_in_prompts_used,
                           !.images_gen_remaining =
                               PlusImagesGenLimit
                                 - before.images_generated_today] ]_vars

C13_Witness ==
    /\ last.op = "apply_promo_and_upgrade"
    /\ last.result.allowed
    /\ last.prev_op = "increment_message_usage"
    /\ ~last.pre.is_plus
    /\ Row.is_plus
    /\ Row.tcoins < last.pre.tcoins
    /\ Row.messages_used = 2
    /\ Row.images_in_prompts_used = 2
    /\ Row.usage_reset_at < last.at

\* C18: profiles.tcoins is never below 0, whatever updateTcoins,
\* upgradeToPlusAccount and apply_promo_and_upgrade calls the sessions of a
\* user make and however they interleave.
C18_TcoinsNeverNegative ==
    \A u \in DOMAIN profiles : profiles[u].tcoins >= 0

(***************************************************************************)
(* The two gateways (edge functions chat and generate-image).  req is the  *)
(* request being served: what came in, where the handler stands, what the  *)
(* quota RPC answered, the calls made so far in order (trace: "rpc" for    *)
(* the quota RPC, "llm" for the fetch of the model), and the response.     *)
(***************************************************************************)
GatewayUser == "u1"

Respond(status, error) ==
    [req EXCEPT !.pc = "done", !.status = status, !.error = error]

\* A request arrives (the body parsed).
Receive(gateway, input, auth, has_image) ==
    /\ req.pc \in {"idle", "done"}
    /\ req' = [IdleReq EXCEPT !.gateway = gateway, !.pc = "validate",
                              !.input = input, !.auth = auth,
                              !.user = GatewayUser, !.has_image = has_image]
    /\ UNCHANGED <<profiles, last>>

\* chat: the input validation; "" when the input passes.  "not_array" is a
\* body whose messages are not a non-empty array, "too_long" one with a
\* message of more than 10000 characters among the last 100.
\* Variant: the length of the messages not tested.
ChatInputErrorLengthUntested(input) ==
    IF input = "not_array" THEN "Invalid messages array" ELSE ""
ChatInputError(input) ==
    IF input = "not_array" THEN "Invalid messages array"
    ELSE IF input = "too_long" THEN "Message too long"
    ELSE ""

ChatValidate ==
    /\ req.gateway = "chat"
    /\ req.pc = "validate"
    /\ req' = IF ChatInputError(req.input) # ""
              THEN Respond(400, ChatInputError(req.input))
              ELSE [req EXCEPT !.pc = "auth"]
    /\ UNCHANGED <<profiles, last>>

\* chat: no Authorization header, or a token auth.getUser rejects: the
\* request goes on as an anonymous one.
ChatAuth ==
    /\ req.gateway = "chat"
    /\ req.pc = "auth"
    /\ req' = [req EXCEPT !.pc = IF req.auth = "valid" THEN "profile"
                                 ELSE "forward"]
    /\ UNCHANGED <<profiles, last>>

\* chat: the model chosen from the profile read.
\* Variant: the selected model taken whatever the tier.
SelectedModelUnchecked(profile) ==
    IF profile.selected_model = NoModel THEN FreeModel
    ELSE profile.selected_model
SelectedModel(profile) ==
    LET modelId == IF profile.selected_model = NoModel THEN FreeModel
                   ELSE profile.selected_model
        isPlusModel == modelId = NanoModel \/ modelId = OmniModel
    IN  IF isPlusModel /\ ~profile.is_plus THEN FreeModel ELSE modelId

\* chat: SELECT selected_model, is_plus; no row read leaves the free model.
ChatSelectProfile ==
    /\ req.gateway = "chat"
    /\ req.pc = "profile"
    /\ \E found \in BOOLEAN :
         req' = IF found
                THEN [req EXCEPT
                        !.selected_model = SelectedModel(profiles[req.user]),
                        !.is_plus = profiles[req.user].is_plus,
                        !.pc = "usage"]
                ELSE [req EXCEPT !.pc = "usage"]
    /\ UNCHANGED <<profiles, last>>

\* chat: the response to a refusal of increment_message_usage; status 0
\* when the handler goes on.
\* Variant: only the message ceiling answered.
ChatUsageResponseMessagesOnly(result) ==
    IF ~result.allowed /\ result.reason = "messages_limit"
    THEN [status |-> 429, error |-> "messages_limit_exceeded"]
    ELSE [status |-> 0, error |-> ""]
ChatUsageResponse(result) ==
    IF ~result.allowed /\ result.reason = "messages_limit"
    THEN [status |-> 429, error |-> "messages_limit_exceeded"]
    ELSE IF ~result.allowed /\ result.reason = "images_prompt_limit"
         THEN [status |-> 429, error |-> "images_prompt_limit_exceeded"]
         ELSE [status |-> 0, error |-> ""]

UsageOf(result) == IF result.allowed THEN "allowed" ELSE result.reason

\* chat: the RPC fails (usageError: logged, the handler goes on).
ChatUsageError ==
    /\ req.gateway = "chat"
    /\ req.pc = "usage"
    /\ req' = [req EXCEPT !.usage = "error",
                          !.trace = Append(@, "rpc"),
                          !.pc = "forward"]
    /\ UNCHANGED <<profiles, last>>

\* chat: the RPC answers.
ChatUsage ==
    /\ req.gateway = "chat"
    /\ req.pc = "usage"
    /\ RpcIncrementMessageUsage(req.user, req.has_image)
    /\ LET usageResult ==
               IncrementMessageUsageResult(profiles[req.user], req.has_image,
                                           now)
           response == ChatUsageResponse(usageResult)
       IN  req' = [req EXCEPT
                     !.usage = UsageOf(usageResult),
                     !.trace = Append(@, "rpc"),
                     !.pc = IF response.status # 0 THEN "done" ELSE "forward",
                     !.status = response.status,
                     !.error = response.error]

\* chat: MODEL_MAP[selectedModel] || 'google/gemini-2.5-flash-lite'.
AiModel(selectedModel) ==
    IF selectedModel = FreeModel THEN FlashLite
    ELSE IF selectedModel = NanoModel THEN Flash
    ELSE IF selectedModel = OmniModel THEN Pro
    ELSE FlashLite

UpstreamStatus(upstream) ==
    IF upstream = "ok" THEN [status |-> 200, error |-> ""]
    ELSE IF upstream = "429" THEN [status |-> 429,
                                   error |-> "Rate limit exceeded"]
    ELSE IF upstream = "402" THEN [status |-> 402,
                                   error |-> "Payment required"]
    ELSE IF upstream = "no_image" THEN [status |-> 400,
                                        error |-> "No image generated"]
    ELSE [status |-> 500, error |-> "AI Gateway error"]

\* chat: the conversation is sent to the model and the answer relayed.
ChatForward ==
    /\ req.gateway = "chat"
    /\ req.pc = "forward"
    /\ \E upstream \in {"ok", "429", "402", "error"} :
         req' = [req EXCEPT
                   !.trace = Append(@, "llm"),
                   !.ai_model = AiModel(req.selected_model),
                   !.upstream = upstream,
                   !.pc = "done",
                   !.status = UpstreamStatus(upstream).status,
                   !.error = UpstreamStatus(upstream).error]
    /\ UNCHANGED <<profiles, last>>

\* generate-image: the prompt validation.
ImageValidate ==
    /\ req.gateway = "image"
    /\ req.pc = "validate"
    /\ req' = IF req.input = "missing" THEN Respond(400, "Prompt is required")
              ELSE IF req.input = "too_long"
                   THEN Respond(400, "Prompt too long")
                   ELSE [req EXCEPT !.pc = "auth"]
    /\ UNCHANGED <<profiles, last>>

\* generate-image: the Authorization header and the token.
ImageAuth ==
    /\ req.gateway = "image"
    /\ req.pc = "auth"
    /\ req' = IF req.auth = "none" THEN Respond(401, "Authorization required")
              ELSE IF req.auth = "invalid" THEN Respond(401, "Invalid user")
              ELSE [req EXCEPT !.pc = "usage"]
    /\ UNCHANGED <<profiles, last>>

\* generate-image: the RPC fails.
ImageUsageError ==
    /\ req.gateway = "image"
    /\ req.pc = "usage"
    /\ req' = [req EXCEPT !.usage = "error",
                          !.trace = Append(@, "rpc"),
                          !.pc = "done",
                          !.status = 500,
                          !.error = "Failed to check usage limits"]
    /\ UNCHANGED <<profiles, last>>

\* generate-image: the response to the answer of increment_image_gen_usage.
\* Variant: a refusal let through.
ImageUsageResponseOpen(result) == [status |-> 0, error |-> ""]
ImageUsageResponse(result) ==
    IF ~result.allowed
    THEN [status |-> 429, error |-> "images_gen_limit_exceeded"]
    ELSE [status |-> 0, error |-> ""]

\* generate-image: the RPC answers.
ImageUsage ==
    /\ req.gateway = "image"
    /\ req.pc = "usage"
    /\ RpcIncrementImageGenUsage(req.user)
    /\ LET usageResult == IncrementImageGenUsageResult(profiles[req.user], now)
           response == ImageUsageResponse(usageResult)
       IN  req' = [req EXCEPT
                     !.usage = UsageOf(usageResult),
                     !.trace = Append(@, "rpc"),
                     !.pc = IF response.status # 0 THEN "done" ELSE "forward",
                     !.status = response.status,
                     !.error = response.error]

\* generate-image: the prompt is sent to the image model.
ImageForward ==
    /\ req.gateway = "image"
    /\ req.pc = "forward"
    /\ \E upstream \in {"ok", "no_image", "429", "error"} :
         req' = [req EXCEPT
                   !.trace = Append(@, "llm"),
                   !.ai_model = FlashImage,
                   !.upstream = upstream,
                   !.pc = "done",
                   !.status = UpstreamStatus(upstream).status,
                   !.error = UpstreamStatus(upstream).error]
    /\ UNCHANGED <<profiles, last>>

(***************************************************************************)
(* SpecGateway: requests of every kind served one after the other for a    *)
(* user at or one short of the ceilings, who may change the selected model *)
(* or upgrade at any point of a request.                                   *)
(***************************************************************************)
\* One short of the message and image-generation ceilings with the
\* images-in-prompt ceiling reached, or at both ceilings.
GatewayProfilesOf(plus) ==
    LET lim == TierLimits(plus)
    IN  { [NewProfile(AccountAge) EXCEPT
             !.is_plus = plus,
             !.tcoins = IF plus THEN 0 ELSE PlusPrice,
             !.plus_expires_at = IF plus THEN MonthHours ELSE NoTime,
             !.messages_used = lim.messages_limit - short,
             !.images_in_prompts_used =
                 IF short = 1 THEN lim.images_prompt_limit ELSE 0,
             !.images_generated_today = lim.images_gen_limit - short] :
          short \in {0, 1} }

InitGateway ==
    /\ now = AccountAge
    /\ profiles \in [{GatewayUser} ->
                       GatewayProfilesOf(FALSE) \cup GatewayProfilesOf(TRUE)]
    /\ last = NoCall
    /\ steps = 0
    /\ calls = NoCalls
    /\ txns = [p \in Procs |-> IdleTxn]
    /\ lock = None
    /\ InitRest

GatewayMove(A) ==
    /\ A
    /\ UNCHANGED <<now, steps, calls, txns, lock, cache, promo_codes,
                   promo_code_uses, tcoin_transactions, side>>

GatewayReceiveChat ==
    \E input \in {"ok", "not_array", "too_long"},
       auth \in {"none", "invalid", "valid"}, has_image \in BOOLEAN :
        /\ steps < MaxRequests
        /\ Receive("chat", input, auth, has_image)
        /\ steps' = steps + 1
        /\ UNCHANGED <<now, calls, txns, lock, cache, promo_codes,
                       promo_code_uses, tcoin_transactions, side>>
GatewayReceiveImage ==
    \E input \in {"ok", "missing", "too_long"},
       auth \in {"none", "invalid", "valid"} :
        /\ steps < MaxRequests
        /\ Receive("image", input, auth, FALSE)
        /\ steps' = steps + 1
        /\ UNCHANGED <<now, calls, txns, lock, cache, promo_codes,
                       promo_code_uses, tcoin_transactions, side>>
GatewayChatValidate == GatewayMove(ChatValidate)
GatewayChatAuth == GatewayMove(ChatAuth)
GatewayChatSelectProfile == GatewayMove(ChatSelectProfile)
GatewayChatUsageError == GatewayMove(ChatUsageError)
GatewayChatUsage == GatewayMove(ChatUsage)
GatewayChatForward == GatewayMove(ChatForward)
GatewayImageValidate == GatewayMove(ImageValidate)
GatewayImageAuth == GatewayMove(ImageAuth)
GatewayImageUsageError == GatewayMove(ImageUsageError)
GatewayImageUsage == GatewayMove(ImageUsage)
GatewayImageForward == GatewayMove(ImageForward)
GatewayUpdateSelectedModel ==
    \E model \in {FreeModel, NanoModel, OmniModel, NoModel, OtherModel} :
        /\ req.pc \in {"idle", "done"}
        /\ steps < MaxRequests
        /\ profiles[GatewayUser].selected_model # model
        /\ UpdateSelectedModel(GatewayUser, model)
        /\ UNCHANGED <<now, steps, calls, req, side>>
GatewayUpgradeToPlusAccount ==
    /\ UpgradeToPlusAccount(GatewayUser)
    /\ UNCHANGED <<rest, now, steps, calls, txns, lock>>

NextGateway ==
    \/ GatewayReceiveChat
    \/ GatewayReceiveImage
    \/ GatewayChatValidate
    \/ GatewayChatAuth
    \/ GatewayChatSelectProfile
    \/ GatewayChatUsageError
    \/ GatewayChatUsage
    \/ GatewayChatForward
    \/ GatewayImageValidate
    \/ GatewayImageAuth
    \/ GatewayImageUsageError
    \/ GatewayImageUsage
    \/ GatewayImageForward
    \/ GatewayUpdateSelectedModel
    \/ GatewayUpgradeToPlusAccount

SpecGateway == InitGateway /\ [][NextGateway]_vars

Called(event) == \E i \in 1..Len(req.trace) : req.trace[i] = event

\* C14: the chat gateway never calls increment_message_usage after the
\* model; for a request with a valid token the RPC has been called before
\* the model is; and when the RPC answers allowed = false the request ends
\* with status 429 and the error of the refusal (messages_limit_exceeded or
\* images_prompt_limit_exceeded) without the model having been called.
C14_ChatRefusalNeverReachesModel ==
    req.gateway = "chat" =>
      /\ req.trace \in {<<>>, <<"rpc">>, <<"llm">>, <<"rpc", "llm">>}
      /\ (req.auth = "valid" /\ Called("llm")) => req.trace[1] = "rpc"
      /\ req.usage \in {"messages_limit", "images_prompt_limit"} =>
           /\ ~Called("llm")
           /\ req.pc = "done"
           /\ req.status = 429
           /\ req.error = IF req.usage = "messages_limit"
                          THEN "messages_limit_exceeded"
                          ELSE "images_prompt_limit_exceeded"

C14_Witness ==
    /\ req.gateway = "chat"
    /\ req.pc = "done"
    /\ req.usage = "images_prompt_limit"
    /\ last.op = "increment_message_usage"
    /\ ~last.result.allowed
    /\ req.trace = <<"rpc">>
    /\ req.status = 429

\* C15: the image gateway calls the image model only after
\* increment_image_gen_usage, called in the same request, answered
\* allowed = true; when it answers allowed = false the request ends with
\* status 429 and images_gen_limit_exceeded without the model having been
\* called.
C15_ImageModelOnlyAfterAllowed ==
    req.gateway = "image" =>
      /\ Called("llm") =>
           (req.trace = <<"rpc", "llm">> /\ req.usage = "allowed")
      /\ req.usage = "images_gen_limit" =>
           /\ req.trace = <<"rpc">>
           /\ req.pc = "done"
           /\ req.status = 429
           /\ req.error = "images_gen_limit_exceeded"

C15_Witness ==
    /\ req.gateway = "image"
    /\ req.pc = "done"
    /\ req.trace = <<"rpc", "llm">>
    /\ req.status = 200
    /\ last.op = "increment_image_gen_usage"
    /\ last.result.allowed
    /\ Row.images_generated_today = TierLimits(Row.is_plus).images_gen_limit

\* C16: when the quota RPC fails, the gateway (chat or image) does not call
\* the model and the request ends with a service error (status 500).
C16_FailedRpcNeverReachesModel ==
    req.usage = "error" =>
      /\ ~Called("llm")
      /\ req.pc = "done" => req.status = 500

\* C19: a request rejected for invalid input never invokes the quota RPC.
\* A chat request whose messages are not a non-empty array, or hold a
\* message that is too long, ends with status 400, and no chat request that
\* ends with 400 has invoked increment_message_usage; an image request whose
\* prompt is missing or too long ends with 400, and one with a valid prompt
\* and a missing or invalid authorization with 401, without
\* increment_image_gen_usage having been invoked.
C19_RejectedInputConsumesNoQuota ==
    /\ ~(req.input = "ok" /\ req.auth = "valid" /\ req.gateway = "image")
         => (req.gateway = "image" => ~Called("rpc"))
    /\ (req.gateway = "chat" /\ (req.input # "ok" \/ req.status = 400))
         => ~Called("rpc")
    /\ req.pc = "done" =>
         /\ (req.gateway = "chat" /\ req.input # "ok") => req.status = 400
         /\ (req.gateway = "image" /\ req.input # "ok") => req.status = 400
         /\ (req.gateway = "image" /\ req.input = "ok"
               /\ req.auth # "valid") => req.status = 401

C19_Witness ==
    /\ req.gateway = "chat"
    /\ req.pc = "done"
    /\ req.input = "too_long"
    /\ req.auth = "valid"
    /\ req.status = 400
    /\ req.trace = <<>>
    /\ steps = MaxRequests
    /\ last.op = "increment_image_gen_usage"

\* C20: whatever selected_model holds, a chat request of a user whose
\* profile is not Plus (and any request without a valid token) is sent to
\* the model of thetai-1.0-free, never to that of a Plus-only model.
C20_FreeUserServedByFreeModel ==
    ( /\ req.gateway = "chat"
      /\ Called("llm")
      /\ ~(req.auth = "valid" /\ profiles[req.user].is_plus) )
    => /\ req.ai_model = FlashLite
       /\ req.selected_model \notin {NanoModel, OmniModel}

C20_Witness ==
    /\ req.gateway = "chat"
    /\ Called("llm")
    /\ req.auth = "valid"
    /\ ~profiles[req.user].is_plus
    /\ profiles[req.user].selected_model = OmniModel
    /\ req.ai_model = FlashLite
    /\ req.status = 200

(***************************************************************************)
(* SpecUsers: the quota RPCs of two users in any order, each user's row    *)
(* with usage on it and its windows elapsed or not.                        *)
(***************************************************************************)
TwoUsers == {"u1", "u2"}

UsersProfiles ==
    { [NewProfile(AccountAge - a24) EXCEPT
         !.is_plus = plus,
         !.plus_expires_at = IF plus THEN MonthHours ELSE NoTime,
         !.tcoins = IF plus THEN 0 ELSE InitialTcoins,
         !.messages_used = FreeMessagesLimit,
         !.images_in_prompts_used = 1,
         !.images_generated_today = FreeImagesGenLimit,
         !.usage_reset_at = AccountAge - a6] :
      plus \in BOOLEAN,
      a6 \in {0, SixHours + 1},
      a24 \in {SixHours + 1, DayHours + 1} }

InitUsers ==
    /\ now = AccountAge
    /\ profiles \in [TwoUsers -> UsersProfiles]
    /\ last = NoCall
    /\ steps = 0
    /\ calls = NoCalls
    /\ txns = [p \in Procs |-> IdleTxn]
    /\ lock = None
    /\ InitRest

UsersStep(A) ==
    /\ steps < MaxUsersSteps
    /\ A
    /\ steps' = steps + 1
    /\ UNCHANGED <<rest, calls, txns, lock>>

UsersCheckAndResetUsage == \E u \in TwoUsers :
    UsersStep(RpcCheckAndResetUsage(u) /\ UNCHANGED now)
UsersGetUserLimits == \E u \in TwoUsers :
    UsersStep(RpcGetUserLimits(u) /\ UNCHANGED now)
UsersIncrementMessageUsage == \E u \in TwoUsers, has_image \in BOOLEAN :
    UsersStep(RpcIncrementMessageUsage(u, has_image) /\ UNCHANGED now)
UsersIncrementImageGenUsage == \E u \in TwoUsers :
    UsersStep(RpcIncrementImageGenUsage(u) /\ UNCHANGED now)
UsersTick == UsersStep(Tick)

NextUsers ==
    \/ UsersCheckAndResetUsage
    \/ UsersGetUserLimits
    \/ UsersIncrementMessageUsage
    \/ UsersIncrementImageGenUsage
    \/ UsersTick

SpecUsers == InitUsers /\ [][NextUsers]_vars

\* C17: a quota operation invoked for one user (check_and_reset_usage,
\* get_user_limits, increment_message_usage, increment_image_gen_usage)
\* leaves the whole row of every other user as it was, in whatever order the
\* operations of the users come.
C17_OtherUsersRowsUntouched ==
    [][ \A v \in DOMAIN profiles :
          (last'.op \in QuotaOps /\ last'.user # v)
            => profiles'[v] = profiles[v] ]_vars

C17_Witness ==
    /\ last.op = "check_and_reset_usage"
    /\ last.user = "u1"
    /\ Row # last.pre
    /\ Row.messages_used = 0
    /\ profiles["u2"].messages_used = FreeMessagesLimit
    /\ UsageWindowElapsed(profiles["u2"].usage_reset_at, now)
    /\ ImageGenWindowElapsed(profiles["u2"].image_gen_reset_at, now)

(***************************************************************************)
(* SpecRun: one user sends messages without images and generates images,   *)
(* from zero usage, all inside the window the account starts in.  calls    *)
(* counts the calls made and those answered allowed = true.                *)
(***************************************************************************)
RunUser == "u1"

PlusProfile(t) ==
    [NewProfile(t) EXCEPT !.is_plus = TRUE, !.tcoins = 0,
                          !.plus_expires_at = t + MonthHours]

InitRun ==
    /\ now \in 0..MaxRunStart
    /\ profiles \in { [u \in {RunUser} |-> NewProfile(now)],
                      [u \in {RunUser} |-> PlusProfile(now)] }
    /\ last = NoCall
    /\ steps = 0
    /\ calls = NoCalls
    /\ txns = [p \in Procs |-> IdleTxn]
    /\ lock = None
    /\ InitRest

RunLimits == TierLimits(profiles[RunUser].is_plus)

RunIncrementMessageUsage ==
    /\ calls.msg < RunLimits.messages_limit + RunExtraCalls
    /\ RpcIncrementMessageUsage(RunUser, FALSE)
    /\ calls' = [calls EXCEPT
                   !.msg = @ + 1,
                   !.msg_allowed = IF last'.result.allowed THEN @ + 1 ELSE @]
    /\ UNCHANGED <<rest, now, steps, txns, lock>>

RunIncrementImageGenUsage ==
    /\ calls.gen < RunLimits.images_gen_limit + RunExtraCalls
    /\ RpcIncrementImageGenUsage(RunUser)
    /\ calls' = [calls EXCEPT
                   !.gen = @ + 1,
                   !.gen_allowed = IF last'.result.allowed THEN @ + 1 ELSE @]
    /\ UNCHANGED <<rest, now, steps, txns, lock>>

RunTick ==
    /\ now - profiles[RunUser].usage_reset_at < MaxRunHours
    /\ Tick
    /\ UNCHANGED <<rest, steps, calls, txns, lock>>

NextRun ==
    \/ RunIncrementMessageUsage
    \/ RunIncrementImageGenUsage
    \/ RunTick

SpecRun == InitRun /\ [][NextRun]_vars

Min(a, b) == IF a <= b THEN a ELSE b

\* C2: from messages_used = 0 inside one window, the first messages_limit
\* calls of increment_message_usage(user, false) are all allowed and every
\* later one is refused with messages_limit, in both tiers: a user at
\* used = limit is denied.
C2_MessagesAllowedUpToLimit ==
    /\ calls.msg_allowed = Min(calls.msg, RunLimits.messages_limit)
    /\ profiles[RunUser].messages_used = calls.msg_allowed
    /\ last.op = "increment_message_usage" =>
         last.result = IF calls.msg <= RunLimits.messages_limit
                       THEN Allowed
                       ELSE Refused("messages_limit", NoTime)

C2_Witness ==
    /\ profiles[RunUser].is_plus
    /\ calls.msg = PlusMessagesLimit + 1
    /\ calls.msg_allowed = PlusMessagesLimit
    /\ last.op = "increment_message_usage"
    /\ last.pre.messages_used = PlusMessagesLimit
    /\ last.result = Refused("messages_limit", NoTime)

\* C4: from images_generated_today = 0 inside one 24h window, the first
\* images_gen_limit calls of increment_image_gen_usage are all allowed and
\* every later one is refused with images_gen_limit and resets_at equal to
\* the stored image_gen_reset_at + 24h.
C4_ImageGensAllowedUpToLimit ==
    /\ calls.gen_allowed = Min(calls.gen, RunLimits.images_gen_limit)
    /\ profiles[RunUser].images_generated_today = calls.gen_allowed
    /\ last.op = "increment_image_gen_usage" =>
         last.result =
             IF calls.gen <= RunLimits.images_gen_limit
             THEN Allowed
             ELSE Refused("images_gen_limit",
                          profiles[RunUser].image_gen_reset_at + DayHours)

C4_Witness ==
    /\ calls.gen = RunLimits.images_gen_limit + 1
    /\ calls.gen_allowed = RunLimits.images_gen_limit
    /\ last.op = "increment_image_gen_usage"
    /\ profiles[RunUser].image_gen_reset_at > 0
    /\ now > profiles[RunUser].image_gen_reset_at
    /\ last.result.reason = "images_gen_limit"
    /\ last.result.resets_at = profiles[RunUser].image_gen_reset_at + DayHours

(***************************************************************************)
(* SpecConc: the two increment RPCs of one user issued from two sessions.  *)
(* Each RPC is one READ COMMITTED transaction whose SQL statements are the *)
(* steps: a SELECT reads the committed row (or the transaction's own       *)
(* uncommitted version), an UPDATE takes the row lock, held to the end of  *)
(* the transaction, and is applied to the latest version of the row; now() *)
(* is the time the transaction began.  The procedures take no lock before  *)
(* they read (no SELECT ... FOR UPDATE).                                   *)
(***************************************************************************)
ConcUser == "u1"

ConcProfiles ==
    { row \in LivedProfiles :
        /\ row.tcoins # PlusPrice
        /\ row.messages_used >= TierLimits(row.is_plus).messages_limit - 1
        /\ row.images_in_prompts_used
             < TierLimits(row.is_plus).images_prompt_limit
        /\ row.images_generated_today
             = TierLimits(row.is_plus).images_gen_limit - 1
        /\ AccountAge - row.usage_reset_at \in {0, SixHours + 1}
        /\ row.image_gen_reset_at = AccountAge }

InitConc ==
    /\ now = AccountAge
    /\ profiles \in [{ConcUser} -> ConcProfiles]
    /\ last = NoCall
    /\ steps = 0
    /\ calls = NoCalls
    /\ txns = [p \in Procs |-> IdleTxn]
    /\ lock = None
    /\ InitRest

\* The session sends the RPC: the transaction begins.
ConcBegin(p, op, has_image) ==
    /\ txns[p].pc = "idle"
    /\ steps < MaxConcCalls
    /\ steps' = steps + 1
    /\ txns' = [txns EXCEPT ![p] =
                  [IdleTxn EXCEPT !.pc = "select", !.op = op,
                                  !.user = ConcUser, !.has_image = has_image,
                                  !.now = now, !.pre = profiles[ConcUser]]]
    /\ UNCHANGED <<rest, profiles, now, last, calls, lock>>

\* check_and_reset_usage: SELECT usage_reset_at, image_gen_reset_at INTO.
ConcSelectAnchors(p) ==
    /\ txns[p].pc = "select"
    /\ txns' = [txns EXCEPT
                  ![p]._usage_reset_at = Read(p).usage_reset_at,
                  ![p]._image_gen_reset_at = Read(p).image_gen_reset_at,
                  ![p].pc = "reset_usage"]
    /\ UNCHANGED <<rest, profiles, now, last, steps, calls, lock>>

\* check_and_reset_usage: IF ... THEN UPDATE of the 6h group.
ConcResetUsage(p) ==
    /\ txns[p].pc = "reset_usage"
    /\ IF UsageWindowElapsed(txns[p]._usage_reset_at, txns[p].now)
       THEN /\ CanWrite(p)
            /\ lock' = p
            /\ txns' = [txns EXCEPT
                          ![p].own = ResetUsage(Read(p), txns[p].now),
                          ![p].wrote = TRUE,
                          ![p].pc = "reset_image_gen"]
       ELSE /\ txns' = [txns EXCEPT ![p].pc = "reset_image_gen"]
            /\ UNCHANGED lock
    /\ UNCHANGED <<rest, profiles, now, last, steps, calls>>

\* check_and_reset_usage: IF ... THEN UPDATE of the 24h group; the procedure
\* returns to its caller.
ConcResetImageGen(p) ==
    /\ txns[p].pc = "reset_image_gen"
    /\ LET next == IF txns[p].level = "outer"
                   THEN "get_user_limits" ELSE "charge"
       IN  IF ImageGenWindowElapsed(txns[p]._image_gen_reset_at, txns[p].now)
           THEN /\ CanWrite(p)
                /\ lock' = p
                /\ txns' = [txns EXCEPT
                              ![p].own = ResetImageGen(Read(p), txns[p].now),
                              ![p].wrote = TRUE,
                              ![p].pc = next]
           ELSE /\ txns' = [txns EXCEPT ![p].pc = next]
                /\ UNCHANGED lock
    /\ UNCHANGED <<rest, profiles, now, last, steps, calls>>

\* _limits := get_user_limits(_user_id): the statement's snapshot is taken,
\* and get_user_limits starts with its own check_and_reset_usage.
ConcCallGetUserLimits(p) ==
    /\ txns[p].pc = "get_user_limits"
    /\ txns' = [txns EXCEPT ![p].snapshot = Read(p),
                            ![p].level = "inner",
                            ![p].pc = "select"]
    /\ UNCHANGED <<rest, profiles, now, last, steps, calls, lock>>

\* get_user_limits builds the jsonb from its snapshot; the caller tests it
\* and either returns the refusal or runs the UPDATE that charges the call.
ConcVerdict(p) ==
    IF txns[p].op = "increment_message_usage"
    THEN MessageUsageVerdict(GetUserLimitsJson(txns[p].snapshot, txns[p].now),
                             txns[p].has_image)
    ELSE ImageGenVerdict(GetUserLimitsJson(txns[p].snapshot, txns[p].now))

ConcCharged(p) ==
    IF txns[p].op = "increment_message_usage"
    THEN ChargeMessage(Read(p), txns[p].has_image)
    ELSE ChargeImageGen(Read(p))

ConcCharge(p) ==
    /\ txns[p].pc = "charge"
    /\ IF ConcVerdict(p).allowed
       THEN /\ CanWrite(p)
            /\ lock' = p
            /\ txns' = [txns EXCEPT ![p].own = ConcCharged(p),
                                    ![p].wrote = TRUE,
                                    ![p].result = ConcVerdict(p),
                                    ![p].pc = "return"]
       ELSE /\ txns' = [txns EXCEPT ![p].result = ConcVerdict(p),
                                    ![p].pc = "return"]
            /\ UNCHANGED lock
    /\ UNCHANGED <<rest, profiles, now, last, steps, calls>>

\* RETURN: the transaction commits and its row version becomes the row.
ConcReturn(p) ==
    /\ txns[p].pc = "return"
    /\ profiles' = IF txns[p].wrote
                   THEN [profiles EXCEPT ![txns[p].user] = txns[p].own]
                   ELSE profiles
    /\ lock' = IF lock = p THEN None ELSE lock
    /\ last' = [ op |-> txns[p].op, user |-> txns[p].user,
                 has_image |-> txns[p].has_image, at |-> txns[p].now,
                 pre |-> txns[p].pre, result |-> txns[p].result,
                 limits |-> NoLimits, prev_op |-> last.op,
                 prev_user |-> last.user, prev_at |-> last.at ]
    /\ calls' =
         IF txns[p].op = "increment_message_usage"
         THEN [calls EXCEPT
                 !.msg = @ + 1,
                 !.msg_allowed = IF txns[p].result.allowed THEN @ + 1 ELSE @]
         ELSE [calls EXCEPT
                 !.gen = @ + 1,
                 !.gen_allowed = IF txns[p].result.allowed THEN @ + 1 ELSE @]
    /\ txns' = [txns EXCEPT ![p] = IdleTxn]
    /\ UNCHANGED <<rest, now, steps>>

ConcTick ==
    /\ now < AccountAge + MaxConcHours
    /\ Tick
    /\ UNCHANGED <<rest, steps, calls, txns, lock>>

ConcBeginIncrementMessageUsage == \E p \in Procs, has_image \in BOOLEAN :
    ConcBegin(p, "increment_message_usage", has_image)
ConcBeginIncrementImageGenUsage == \E p \in Procs :
    ConcBegin(p, "increment_image_gen_usage", FALSE)
ConcStatement == \E p \in Procs :
    \/ ConcSelectAnchors(p)
    \/ ConcResetUsage(p)
    \/ ConcResetImageGen(p)
    \/ ConcCallGetUserLimits(p)
    \/ ConcCharge(p)
    \/ ConcReturn(p)

NextConc ==
    \/ ConcBeginIncrementMessageUsage
    \/ ConcBeginIncrementImageGenUsage
    \/ ConcStatement
    \/ ConcTick

SpecConc == InitConc /\ [][NextConc]_vars

\* A transaction that ran with no other in flight leaves what the procedure
\* run to completion leaves.
ConcAloneIsSequential ==
    (steps = 1 /\ last.op \in QuotaOps /\ \A p \in Procs : txns[p].pc = "idle")
    => /\ last.op = "increment_message_usage" =>
            /\ Row = IncrementMessageUsageRow(last.pre, last.has_image, last.at)
            /\ last.result =
                 IncrementMessageUsageResult(last.pre, last.has_image, last.at)
       /\ last.op = "increment_image_gen_usage" =>
            /\ Row = IncrementImageGenUsageRow(last.pre, last.at)
            /\ last.result = IncrementImageGenUsageResult(last.pre, last.at)

\* C1: under any interleaving of concurrent increment_message_usage and
\* increment_image_gen_usage calls of one user, the stored counters never
\* end above the tier's limits (no two calls pass the limit check against
\* the same stale count).
C1_ConcurrentIncrementsWithinLimits ==
    LET lim == TierLimits(profiles[ConcUser].is_plus)
    IN  /\ profiles[ConcUser].messages_used <= lim.messages_limit
        /\ profiles[ConcUser].images_in_prompts_used
             <= lim.images_prompt_limit
        /\ profiles[ConcUser].images_generated_today <= lim.images_gen_limit

(***************************************************************************)
(* One-time codes: the send-otp and verify-otp functions over the          *)
(* otp_codes and otp_attempts tables.  Each await of a handler is one      *)
(* query, and requests interleave between queries.  Here the clock counts  *)
(* periods of ten minutes.                                                 *)
(***************************************************************************)
MAX_SEND_ATTEMPTS_PER_HOUR == 5
MAX_VERIFY_ATTEMPTS_PER_HOUR == 10
OneHour == 6
TenMinutes == 1

MaxOtpRequests == 3
OtpStart == 6
MaxOtpTime == 7

\* One mailbox under two spellings, and a string that is no address.
Emails == {"ann@x.io", "Ann@x.io"}
EmailInputs == Emails \cup {"ann"}
OtpTypes == {"signup", "login"}
TypeInputs == {"signup", "reset"}
\* The codes generateOtp can draw, and a string that is no code.
Codes == {"111111", "222222"}
CodeInputs == Codes \cup {"1234"}

isValidEmail(email) == email \in Emails
isValidCode(code) == code \in Codes
toLowerCase(email) == IF email = "Ann@x.io" THEN "ann@x.io" ELSE email

OtpAttempt(email, attempt_type, t) ==
    [email |-> email, attempt_type |-> attempt_type, created_at |-> t]

\* .select('*', {count}).eq(email).eq(attempt_type).gte(created_at, since)
CountAttempts(email, attempt_type, since) ==
    Cardinality({i \in DOMAIN otp_attempts :
                    /\ otp_attempts[i].email = email
                    /\ otp_attempts[i].attempt_type = attempt_type
                    /\ otp_attempts[i].created_at >= since})

\* The trigger after each insert into otp_attempts.
cleanup_old_otp_attempts(attempts, t) ==
    SelectSeq(attempts, LAMBDA a : ~(a.created_at < t - OneHour))

\* The insert of an attempt, with its trigger.
InsertAttempt(email, attempt_type) ==
    otp_attempts' =
        cleanup_old_otp_attempts(
            Append(otp_attempts, OtpAttempt(email, attempt_type, now)), now)

\* The handler answers and its locals are gone; what it did stays on record.
Response(r, status, valid, error) ==
    [IdleOtpReq EXCEPT !.fn = r.fn, !.pc = "done", !.status = status,
                       !.valid = valid, !.error = error,
                       !.stored = r.stored, !.checked = r.checked,
                       !.otpRecord = r.otpRecord]

OtpRespond(p, status, valid, error) ==
    otp_reqs' = [otp_reqs EXCEPT ![p] = Response(@, status, valid, error)]

OtpGoto(p, pc) == otp_reqs' = [otp_reqs EXCEPT ![p].pc = pc]

OtpInFlight(p) == otp_reqs[p].pc \notin {"idle", "done"}

\* A request reaches an instance that serves nothing else; a second one
\* in flight at that moment overlaps it.
OtpReceive(p, r) ==
    /\ ~OtpInFlight(p)
    /\ otp_reqs' = [otp_reqs EXCEPT ![p] = r]
    /\ otp_log' = [otp_log EXCEPT !.overlapped =
            @ \/ (r.pc # "done" /\ \E q \in Procs \ {p} : OtpInFlight(q))]
    /\ UNCHANGED <<otp_codes, otp_attempts>>

\* send-otp: the body is read and validated before the first query.
SendValidate(p, email, type) ==
    LET r == [IdleOtpReq EXCEPT !.fn = "send-otp", !.pc = "count",
                                !.email = email, !.type = type]
    IN  OtpReceive(p,
            IF ~isValidEmail(email)
            THEN Response(r, 400, FALSE, "Invalid email format")
            ELSE IF type \notin OtpTypes
            THEN Response(r, 400, FALSE, "Invalid request type")
            ELSE r)

\* send-otp: the rate limiting check.
SendRateLimit(p) ==
    /\ otp_reqs[p].fn = "send-otp"
    /\ otp_reqs[p].pc = "count"
    /\ LET count == CountAttempts(toLowerCase(otp_reqs[p].email), "send",
                                  now - OneHour)
       IN  IF count # 0 /\ count >= MAX_SEND_ATTEMPTS_PER_HOUR
           THEN OtpRespond(p, 429, FALSE, "Too many OTP requests")
           ELSE OtpGoto(p, "record")
    /\ UNCHANGED <<otp_codes, otp_attempts, otp_log>>

\* send-otp: record this attempt.
SendRecordAttempt(p) ==
    /\ otp_reqs[p].fn = "send-otp"
    /\ otp_reqs[p].pc = "record"
    /\ InsertAttempt(toLowerCase(otp_reqs[p].email), "send")
    /\ OtpGoto(p, "delete")
    /\ UNCHANGED <<otp_codes, otp_log>>

\* A send-otp that deletes only the codes that have expired.
SendDeleteExpired(p) ==
    /\ otp_reqs[p].fn = "send-otp"
    /\ otp_reqs[p].pc = "delete"
    /\ otp_codes' = {r \in otp_codes :
                        ~(/\ r.email = toLowerCase(otp_reqs[p].email)
                          /\ r.used = FALSE
                          /\ r.expires_at <= now)}
    /\ OtpGoto(p, "insert")
    /\ UNCHANGED <<otp_attempts, otp_log>>

\* send-otp: delete any existing unused codes for this email.
SendDeleteUnused(p) ==
    /\ otp_reqs[p].fn = "send-otp"
    /\ otp_reqs[p].pc = "delete"
    /\ otp_codes' = {r \in otp_codes :
                        ~(/\ r.email = toLowerCase(otp_reqs[p].email)
                          /\ r.used = FALSE)}
    /\ OtpGoto(p, "insert")
    /\ UNCHANGED <<otp_attempts, otp_log>>

\* send-otp: insert the new code, drawn by generateOtp.
SendInsertCode(p) ==
    /\ otp_reqs[p].fn = "send-otp"
    /\ otp_reqs[p].pc = "insert"
    /\ \E code \in Codes :
        /\ otp_codes' = otp_codes \cup
              {[ id |-> otp_log.stored + 1,
                 email |-> toLowerCase(otp_reqs[p].email), code |-> code,
                 type |-> otp_reqs[p].type,
                 expires_at |-> now + TenMinutes, used |-> FALSE ]}
        /\ otp_reqs' = [otp_reqs EXCEPT ![p].pc = "email",
                                        ![p].stored = TRUE]
    /\ otp_log' = [otp_log EXCEPT !.stored = @ + 1]
    /\ UNCHANGED otp_attempts

\* send-otp: hand the code to the mail service, which accepts it or not.
SendEmail(p) ==
    /\ otp_reqs[p].fn = "send-otp"
    /\ otp_reqs[p].pc = "email"
    /\ \/ OtpRespond(p, 200, FALSE, "")
       \/ OtpRespond(p, 500, FALSE, "Failed to send email")
    /\ UNCHANGED <<otp_codes, otp_attempts, otp_log>>

\* verify-otp: the body is read and validated before the first query.
VerifyValidate(p, email, code) ==
    LET r == [IdleOtpReq EXCEPT !.fn = "verify-otp", !.pc = "count",
                                !.email = email, !.code = code]
    IN  OtpReceive(p,
            IF ~isValidEmail(email)
            THEN Response(r, 400, FALSE, "Invalid email format")
            ELSE IF ~isValidCode(code)
            THEN Response(r, 400, FALSE, "Invalid code format")
            ELSE r)

\* verify-otp: the rate limiting check.
VerifyRateLimit(p) ==
    /\ otp_reqs[p].fn = "verify-otp"
    /\ otp_reqs[p].pc = "count"
    /\ LET count == CountAttempts(toLowerCase(otp_reqs[p].email), "verify",
                                  now - OneHour)
       IN  IF count # 0 /\ count >= MAX_VERIFY_ATTEMPTS_PER_HOUR
           THEN OtpRespond(p, 429, FALSE, "Too many verification attempts")
           ELSE OtpGoto(p, "record")
    /\ UNCHANGED <<otp_codes, otp_attempts, otp_log>>

\* verify-otp: record this attempt.
VerifyRecordAttempt(p) ==
    /\ otp_reqs[p].fn = "verify-otp"
    /\ otp_reqs[p].pc = "record"
    /\ InsertAttempt(toLowerCase(otp_reqs[p].email), "verify")
    /\ OtpGoto(p, "find")
    /\ UNCHANGED <<otp_codes, otp_log>>

\* The rows the query for a valid code matches.
ValidOtps(email, code, t) ==
    {r \in otp_codes : /\ r.email = email
                       /\ r.code = code
                       /\ r.used = FALSE
                       /\ r.expires_at > t}

\* verify-otp: find the valid code; .single() fails unless one row matches.
VerifyFind(p) ==
    /\ otp_reqs[p].fn = "verify-otp"
    /\ otp_reqs[p].pc = "find"
    /\ LET found == ValidOtps(toLowerCase(otp_reqs[p].email),
                              otp_reqs[p].code, now)
       IN  IF Cardinality(found) # 1
           THEN otp_reqs' = [otp_reqs EXCEPT ![p] =
                    Response([@ EXCEPT !.checked = TRUE], 200, FALSE,
                             "Invalid or expired code")]
           ELSE otp_reqs' = [otp_reqs EXCEPT
                    ![p].pc = "mark", ![p].checked = TRUE,
                    ![p].otpRecord = (CHOOSE r \in found : TRUE).id]
    /\ UNCHANGED <<otp_codes, otp_attempts, otp_log>>

\* The update that marks a code as used, by its id alone.
MarkUsed(codes, id) ==
    {IF r.id = id THEN [r EXCEPT !.used = TRUE] ELSE r : r \in codes}

\* verify-otp: mark the code as used and answer that it is valid.
VerifyMarkUsed(p) ==
    /\ otp_reqs[p].fn = "verify-otp"
    /\ otp_reqs[p].pc = "mark"
    /\ otp_codes' = MarkUsed(otp_codes, otp_reqs[p].otpRecord)
    /\ OtpRespond(p, 200, TRUE, "")
    /\ otp_log' = [otp_log EXCEPT !.verified =
            Append(@, [id |-> otp_reqs[p].otpRecord,
                       latest |-> otp_log.stored])]
    /\ UNCHANGED otp_attempts

(***************************************************************************)
(* SpecOtp: two function instances serve send-otp and verify-otp requests  *)
(* for one mailbox, query by query.  The mailbox starts with no attempt on *)
(* record or one short of a limit, all made at time 0.                     *)
(***************************************************************************)
EarlierAttempts(attempt_type, n) ==
    [i \in 1..n |-> OtpAttempt("ann@x.io", attempt_type, 0)]

InitOtp ==
    /\ now = OtpStart
    /\ profiles = [u \in Users |-> NewProfile(0)]
    /\ last = NoCall
    /\ steps = 0
    /\ calls = NoCalls
    /\ txns = [p \in Procs |-> IdleTxn]
    /\ lock = None
    /\ cache = [s \in Procs |-> NewProfile(0)]
    /\ req = IdleReq
    /\ promo_codes = SeededPromoCodes
    /\ promo_code_uses = {}
    /\ tcoin_transactions = <<>>
    /\ otp_codes = {}
    /\ \E sends \in {0, MAX_SEND_ATTEMPTS_PER_HOUR - 1},
          verifies \in {0, MAX_VERIFY_ATTEMPTS_PER_HOUR - 1} :
            otp_attempts = EarlierAttempts("send", sends)
                           \o EarlierAttempts("verify", verifies)
    /\ otp_reqs = [p \in Procs |-> IdleOtpReq]
    /\ otp_log = [stored |-> 0, verified |-> <<>>, overlapped |-> FALSE]
    /\ retry = IdleRetry

OtpOthers ==
    <<profiles, last, calls, txns, lock, cache, req, promo_codes,
      promo_code_uses, tcoin_transactions, retry>>

OtpMove(A) ==
    /\ A
    /\ UNCHANGED <<OtpOthers, now, steps>>

\* A request is served by the first instance that is free.
FreeInstance(p) ==
    /\ ~OtpInFlight(p)
    /\ p = "s2" => OtpInFlight("s1")

OtpSendValidate ==
    \E p \in Procs, email \in EmailInputs, type \in TypeInputs :
        /\ steps < MaxOtpRequests
        /\ FreeInstance(p)
        /\ SendValidate(p, email, type)
        /\ steps' = steps + 1
        /\ UNCHANGED <<OtpOthers, now>>
OtpVerifyValidate ==
    \E p \in Procs, email \in EmailInputs, code \in CodeInputs :
        /\ steps < MaxOtpRequests
        /\ FreeInstance(p)
        /\ VerifyValidate(p, email, code)
        /\ steps' = steps + 1
        /\ UNCHANGED <<OtpOthers, now>>
OtpSendRateLimit == \E p \in Procs : OtpMove(SendRateLimit(p))
OtpSendRecordAttempt == \E p \in Procs : OtpMove(SendRecordAttempt(p))
OtpSendDeleteUnused == \E p \in Procs : OtpMove(SendDeleteUnused(p))
OtpSendInsertCode == \E p \in Procs : OtpMove(SendInsertCode(p))
OtpSendEmail == \E p \in Procs : OtpMove(SendEmail(p))
OtpVerifyRateLimit == \E p \in Procs : OtpMove(VerifyRateLimit(p))
OtpVerifyRecordAttempt == \E p \in Procs : OtpMove(VerifyRecordAttempt(p))
OtpVerifyFind == \E p \in Procs : OtpMove(VerifyFind(p))
OtpVerifyMarkUsed == \E p \in Procs : OtpMove(VerifyMarkUsed(p))
OtpTick ==
    /\ now < MaxOtpTime
    /\ now' = now + 1
    /\ UNCHANGED <<OtpOthers, steps, side>>

NextOtp ==
    \/ OtpSendValidate
    \/ OtpSendRateLimit
    \/ OtpSendRecordAttempt
    \/ OtpSendDeleteUnused
    \/ OtpSendInsertCode
    \/ OtpSendEmail
    \/ OtpVerifyValidate
    \/ OtpVerifyRateLimit
    \/ OtpVerifyRecordAttempt
    \/ OtpVerifyFind
    \/ OtpVerifyMarkUsed
    \/ OtpTick

SpecOtp == InitOtp /\ [][NextOtp]_vars

\* C21: each stored code is answered valid=true by at most one verify-otp
\* request, two concurrent verifies of the same email and code included.
C21_CodeVerifiesAtMostOnce ==
    \A i, j \in DOMAIN otp_log.verified :
        otp_log.verified[i].id = otp_log.verified[j].id => i = j

\* C22: for one mailbox, under either spelling, at most 5 send-otp and at
\* most 10 verify-otp requests get past the rate-limit gate within any one
\* hour, whatever the interleaving, and a request answered 429 has neither
\* stored a code nor checked one.
C22_AttemptsWithinHourlyLimits ==
    /\ CountAttempts("ann@x.io", "send", now - OneHour)
         <= MAX_SEND_ATTEMPTS_PER_HOUR
    /\ CountAttempts("ann@x.io", "verify", now - OneHour)
         <= MAX_VERIFY_ATTEMPTS_PER_HOUR
    /\ \A p \in Procs :
         otp_reqs[p].status = 429 =>
            ~otp_reqs[p].stored /\ ~otp_reqs[p].checked

MaxPromoSteps == 2
MaxPromoTime == 2
PromoExpiry == 2
LimitedMaxUses == 1

Limited == "limited"
Retired == "retired"
NoUser == "u0"

PromoTable ==
    [id \in {Release26, Limited, Retired} |->
       IF id = Release26 THEN SeededPromoCodes[Release26]
       ELSE IF id = Limited
       THEN [ discount_percent |-> Release26Discount,
              max_uses |-> LimitedMaxUses, current_uses |-> 0,
              is_active |-> TRUE, expires_at |-> PromoExpiry ]
       ELSE [ discount_percent |-> Release26Discount,
              max_uses |-> Null, current_uses |-> 0,
              is_active |-> FALSE, expires_at |-> Null ]]

\* What a caller can type as a code, and pass as a promo id.
PromoCodeInputs == {Release26, "LIMITED", Retired, "nosuch"}
PromoIdInputs == {Release26, Limited, Retired}

LOWER(code) == IF code = "LIMITED" THEN "limited" ELSE code

Expired(promo, t) == promo.expires_at # Null /\ ~(promo.expires_at > t)
Exhausted(promo) ==
    promo.max_uses # Null /\ promo.current_uses >= promo.max_uses

\* validate_promo_code(_code, _user_id) at time t.
validate_promo_code(_code, _user_id, t) ==
    LET found == {id \in DOMAIN promo_codes :
                     /\ LOWER(id) = LOWER(_code)
                     /\ promo_codes[id].is_active
                     /\ ~Expired(promo_codes[id], t)}
    IN  IF found = {}
        THEN PromoResult(FALSE, "invalid_code")
        ELSE LET _promo_id == CHOOSE id \in found : TRUE
             IN  IF Exhausted(promo_codes[_promo_id])
                 THEN PromoResult(FALSE, "max_uses_reached")
                 ELSE IF <<_user_id, _promo_id>> \in promo_code_uses
                 THEN PromoResult(FALSE, "already_used")
                 ELSE PromoResult(TRUE, _promo_id)

RpcValidatePromoCode(u, code) ==
    /\ last' = [ op |-> "validate_promo_code", user |-> u,
                 has_image |-> FALSE, at |-> now,
                 pre |-> IF u \in DOMAIN profiles
                         THEN profiles[u] ELSE NewProfile(0),
                 result |-> validate_promo_code(code, u, now),
                 limits |-> NoLimits, prev_op |-> last.op,
                 prev_user |-> last.user, prev_at |-> last.at ]
    /\ UNCHANGED <<profiles, txns, lock, cache, promo_codes,
                   promo_code_uses, tcoin_transactions>>

InitPromo ==
    /\ now = 1
    /\ profiles \in {f \in [TwoUsers -> AccountProfiles] :
                        f["u2"].tcoins = PlusPrice}
    /\ last = NoCall
    /\ steps = 0
    /\ calls = NoCalls
    /\ txns = [p \in Procs |-> IdleTxn]
    /\ lock = None
    /\ cache = [s \in Procs |-> NewProfile(0)]
    /\ req = IdleReq
    /\ promo_codes = PromoTable
    /\ promo_code_uses = {}
    /\ tcoin_transactions = <<>>
    /\ InitSide

PromoStep(A) ==
    /\ steps < MaxPromoSteps
    /\ A
    /\ steps' = steps + 1
    /\ UNCHANGED <<now, calls, req, side>>

PromoMove(A) ==
    /\ A
    /\ UNCHANGED <<now, steps, calls, req, side>>

PromoValidatePromoCode ==
    \E u \in TwoUsers, code \in PromoCodeInputs :
        PromoStep(RpcValidatePromoCode(u, code))
\* A call begins on the first session that is free.
PromoApplyBegin ==
    \E p \in Procs, u \in TwoUsers \cup {NoUser}, id \in PromoIdInputs :
        /\ p = "s2" => txns["s1"].pc # "idle"
        /\ PromoStep(ApplyPromoBegin(p, u, id))
PromoApplySelectPromo == \E p \in Procs : PromoMove(ApplyPromoSelectPromo(p))
PromoApplySelectProfile ==
    \E p \in Procs : PromoMove(ApplyPromoSelectProfile(p))
PromoApplyUpdateProfile ==
    \E p \in Procs : PromoMove(ApplyPromoUpdateProfile(p))
PromoApplyInsertUse == \E p \in Procs : PromoMove(ApplyPromoInsertUse(p))
PromoApplyCommit == \E p \in Procs : PromoMove(ApplyPromoCommit(p))
PromoTick ==
    /\ now < MaxPromoTime
    /\ now' = now + 1
    /\ UNCHANGED <<rest, profiles, last, steps, calls, txns, lock>>

NextPromo ==
    \/ PromoValidatePromoCode
    \/ PromoApplyBegin
    \/ PromoApplySelectPromo
    \/ PromoApplySelectProfile
    \/ PromoApplyUpdateProfile
    \/ PromoApplyInsertUse
    \/ PromoApplyCommit
    \/ PromoTick

SpecPromo == InitPromo /\ [][NextPromo]_vars

\* A step in which session p's apply_promo_and_upgrade call returns.
PromoReturns(p) ==
    /\ txns[p].op = "apply_promo_and_upgrade"
    /\ txns'[p].pc = "idle"

\* C24: apply_promo_and_upgrade succeeds at most once for a (user, promo)
\* pair and is all-or-nothing: a call that returns success finds the pair
\* unused and records it, no use is ever removed, and a call that does not
\* succeed leaves profiles, promo_codes, promo_code_uses and
\* tcoin_transactions as they were.
C24_PromoOncePerUserAllOrNothing ==
    [][ /\ promo_code_uses \subseteq promo_code_uses'
        /\ \A p \in Procs :
             PromoReturns(p) =>
               LET pair == <<txns[p].user, txns[p]._promo_id>>
               IN  IF last'.result.allowed
                   THEN /\ pair \notin promo_code_uses
                        /\ promo_code_uses' = promo_code_uses \cup {pair}
                   ELSE UNCHANGED <<profiles, promo_codes, promo_code_uses,
                                    tcoin_transactions>> ]_vars

\* The same user's second redemption of a code has been refused, after the
\* statement that deducted the price ran, and one use, one ledger entry and
\* one price paid are on record.
C24_Witness ==
    /\ last.op = "apply_promo_and_upgrade"
    /\ last.result = PromoResult(FALSE, "unique_violation")
    /\ Cardinality(promo_code_uses) = 1
    /\ Len(tcoin_transactions) = 1
    /\ profiles[last.user].tcoins = PlusPrice - DiscountedPrice(Release26Discount)


\* C25: a promo code with a non-null max_uses never has current_uses above
\* max_uses, whatever validate_promo_code and apply_promo_and_upgrade calls
\* the users make, and no redemption goes through for a code that has
\* expired or has reached max_uses.
C25_UsesWithinMaxUses ==
    /\ \A id \in DOMAIN promo_codes :
         promo_codes[id].max_uses # Null
            => promo_codes[id].current_uses <= promo_codes[id].max_uses
    /\ \A p \in Procs :
         txns[p].pc = "update_promo"
            => /\ ~Expired(txns[p]._promo, txns[p].now)
               /\ ~Exhausted(txns[p]._promo)

(***************************************************************************)
(* retryOperation, the client's retry helper: one call of it, with any     *)
(* maxRetries up to a bound, an operation that returns or throws at each   *)
(* invocation and a session refresh that can throw as well.  The           *)
(* operation and the refresh are taken to settle, and timers to fire.      *)
(***************************************************************************)
DefaultMaxRetries == 3
DefaultDelay == 1000
MaxMaxRetries == 4

\* The messages of the errors thrown at the helper; no error is "ok".
NetworkMessages ==
    {"NetworkError when attempting to fetch resource.", "Failed to fetch"}
ErrorMessages == NetworkMessages \cup {"JWT expired"}

\* message.includes('NetworkError') || includes('fetch') || includes('network')
isNetworkError(message) == message \in NetworkMessages

\* Variant: giving up on the last attempt only, whatever the error.
RethrowsOnLastAttemptOnly(message, attempt, maxRetries) ==
    attempt = maxRetries - 1
\* if (!isNetworkError || attempt === maxRetries - 1) throw error
Rethrows(message, attempt, maxRetries) ==
    ~isNetworkError(message) \/ attempt = maxRetries - 1

\* The call: lastError = null, attempt = 0, and the loop test.
RetryCall(maxRetries, delay) ==
    /\ retry.pc = "idle"
    /\ retry' = [IdleRetry EXCEPT
                   !.maxRetries = maxRetries, !.delay = delay,
                   !.pc = IF 0 < maxRetries THEN "try" ELSE "throw"]

\* The top of the try block: attempts after the first refresh the session,
\* which can throw.
RetryRefreshSession ==
    /\ retry.pc = "try"
    /\ IF retry.attempt > 0
       THEN \/ retry' = [retry EXCEPT !.refreshed = @ + 1,
                                      !.pc = "operation"]
            \/ \E error \in ErrorMessages :
                 retry' = [retry EXCEPT
                             !.refreshed = @ + 1,
                             !.outcomes = Append(@, error),
                             !.lastError = error, !.pc = "catch"]
       ELSE retry' = [retry EXCEPT !.pc = "operation"]

\* return await operation(): its result is returned, its error is caught.
RetryOperation ==
    /\ retry.pc = "operation"
    /\ \/ retry' = [retry EXCEPT !.invoked = @ + 1,
                                 !.outcomes = Append(@, "ok"),
                                 !.result = "data", !.pc = "returned"]
       \/ \E error \in ErrorMessages :
            retry' = [retry EXCEPT !.invoked = @ + 1,
                                   !.outcomes = Append(@, error),
                                   !.lastError = error, !.pc = "catch"]

\* The catch block: rethrow, or wait before the next attempt.
RetryCatch ==
    /\ retry.pc = "catch"
    /\ IF Rethrows(retry.lastError, retry.attempt, retry.maxRetries)
       THEN retry' = [retry EXCEPT !.thrown = retry.lastError,
                                   !.pc = "thrown"]
       ELSE retry' = [retry EXCEPT !.pc = "sleep"]

\* The timer fires; attempt++ and the loop test.
RetrySleep ==
    /\ retry.pc = "sleep"
    /\ retry' = [retry EXCEPT
                   !.slept = @ + retry.delay * (retry.attempt + 1),
                   !.attempt = @ + 1,
                   !.pc = IF retry.attempt + 1 < retry.maxRetries
                          THEN "try" ELSE "throw"]

\* throw lastError, after the loop.
RetryThrowLastError ==
    /\ retry.pc = "throw"
    /\ retry' = [retry EXCEPT !.thrown = retry.lastError, !.pc = "thrown"]

InitRetry ==
    /\ now = 0
    /\ profiles = [u \in Users |-> NewProfile(0)]
    /\ last = NoCall
    /\ steps = 0
    /\ calls = NoCalls
    /\ txns = [p \in Procs |-> IdleTxn]
    /\ lock = None
    /\ InitRest

RetryOthers ==
    <<profiles, now, last, steps, calls, txns, lock, cache, req, promo_codes,
      promo_code_uses, tcoin_transactions, otp_codes, otp_attempts, otp_reqs,
      otp_log>>

RetryStep(A) ==
    /\ A
    /\ UNCHANGED RetryOthers

RetryBegin ==
    \E maxRetries \in 0..MaxMaxRetries :
        RetryStep(RetryCall(maxRetries, DefaultDelay))
RetryTry == RetryStep(RetryRefreshSession)
RetryInvoke == RetryStep(RetryOperation)
RetryCaught == RetryStep(RetryCatch)
RetryWait == RetryStep(RetrySleep)
RetryFallThrough == RetryStep(RetryThrowLastError)

NextRetry ==
    \/ RetryBegin
    \/ RetryTry
    \/ RetryInvoke
    \/ RetryCaught
    \/ RetryWait
    \/ RetryFallThrough

SpecRetry == InitRetry /\ [][NextRetry]_vars /\ WF_vars(NextRetry)

RetryDone == retry.pc \in {"returned", "thrown"}

\* What every state of a call satisfies: the operation was invoked at most
\* maxRetries times; a result ends the call at once and is what it returns;
\* an error that is no network error is rethrown at once; after maxRetries
\* attempts that failed the last error is rethrown.
RetryBounded ==
    LET n == Len(retry.outcomes)
    IN  /\ retry.invoked <= retry.maxRetries
        /\ n <= retry.maxRetries
        /\ \A i \in 1..n :
             \/ i = n
             \/ isNetworkError(retry.outcomes[i])
        /\ (n > 0 /\ retry.outcomes[n] = "ok")
              <=> retry.pc = "returned"
        /\ retry.pc = "returned" => retry.result = "data"
        /\ (n > 0 /\ retry.outcomes[n] \in ErrorMessages
                  /\ ~isNetworkError(retry.outcomes[n]))
              => /\ retry.pc \in {"catch", "thrown"}
                 /\ retry.lastError = retry.outcomes[n]
        /\ (n = retry.maxRetries /\ n > 0 /\ retry.outcomes[n] # "ok")
              => /\ retry.pc \in {"catch", "thrown"}
                 /\ retry.lastError = retry.outcomes[n]
        /\ retry.pc = "thrown" => retry.thrown = retry.lastError

\* C26: retryOperation always terminates and bounds its attempts: it invokes
\* the operation at most maxRetries times, returns the first successful
\* result without a further attempt, rethrows an error that is no network
\* error at once, and after maxRetries consecutive network errors rethrows
\* the last of them.
C26_RetryTerminatesWithinMaxRetries ==
    /\ []RetryBounded
    /\ (retry.pc # "idle") ~> RetryDone

\* A call with the default maxRetries met three network errors in a row,
\* refreshed the session twice, waited twice and rethrew the last error.
C26_Witness ==
    /\ retry.maxRetries = DefaultMaxRetries
    /\ retry.pc = "thrown"
    /\ retry.invoked = DefaultMaxRetries
    /\ retry.refreshed = 2
    /\ retry.slept = 3 * DefaultDelay
    /\ retry.thrown = "Failed to fetch"
    /\ \A i \in 1..Len(retry.outcomes) : isNetworkError(retry.outcomes[i])

(***************************************************************************)
(* SpecExpiry: an account that can pay for Plus upgrades, picks its model, *)
(* lets the month of the upgrade go by and then asks for its limits and    *)
(* chats.                                                                  *)
(***************************************************************************)
MaxPastExpiry == 1

InitExpiry ==
    /\ now = 0
    /\ profiles = [u \in {GatewayUser} |->
                     [NewProfile(0) EXCEPT !.tcoins = PlusPrice]]
    /\ last = NoCall
    /\ steps = 0
    /\ calls = NoCalls
    /\ txns = [p \in Procs |-> IdleTxn]
    /\ lock = None
    /\ InitRest

\* The month of the upgrade goes by, and hours after it, between requests.
ExpiryMonthPasses ==
    /\ req.pc \in {"idle", "done"}
    /\ now < MonthHours
    /\ now' = now + MonthHours
    /\ UNCHANGED <<rest, profiles, last, steps, calls, txns, lock>>
ExpiryTick ==
    /\ req.pc \in {"idle", "done"}
    /\ now >= MonthHours
    /\ now < MonthHours + MaxPastExpiry
    /\ now' = now + 1
    /\ UNCHANGED <<rest, profiles, last, steps, calls, txns, lock>>
ExpiryGetUserLimits ==
    /\ req.pc \in {"idle", "done"}
    /\ steps < MaxRequests
    /\ RpcGetUserLimits(GatewayUser)
    /\ steps' = steps + 1
    /\ UNCHANGED <<rest, now, calls, txns, lock>>

\* The account's own chat requests: well-formed, with its token.
ExpiryReceiveChat ==
    \E has_image \in BOOLEAN :
        /\ steps < MaxRequests
        /\ Receive("chat", "ok", "valid", has_image)
        /\ steps' = steps + 1
        /\ UNCHANGED <<now, calls, txns, lock, cache, promo_codes,
                       promo_code_uses, tcoin_transactions, side>>

NextExpiry ==
    \/ GatewayUpgradeToPlusAccount
    \/ GatewayUpdateSelectedModel
    \/ ExpiryMonthPasses
    \/ ExpiryTick
    \/ ExpiryGetUserLimits
    \/ ExpiryReceiveChat
    \/ GatewayChatValidate
    \/ GatewayChatAuth
    \/ GatewayChatSelectProfile
    \/ GatewayChatUsageError
    \/ GatewayChatUsage
    \/ GatewayChatForward

SpecExpiry == InitExpiry /\ [][NextExpiry]_vars

\* The stored expiry of row's upgrade has passed at time t.
PlusExpired(row, t) == row.plus_expires_at # NoTime /\ t > row.plus_expires_at

\* C28: once the stored plus_expires_at has passed the user is held to the
\* free tier again: get_user_limits reports the free limits (50/10/5) and
\* the chat gateway serves the request with the free model.
C28_ExpiredPlusHeldToFreeTier ==
    /\ (last.op = "get_user_limits" /\ PlusExpired(last.pre, last.at))
          => /\ last.limits.messages_limit = FreeMessagesLimit
             /\ last.limits.images_prompt_limit = FreeImagesPromptLimit
             /\ last.limits.images_gen_limit = FreeImagesGenLimit
    /\ ( /\ req.gateway = "chat"
         /\ req.auth = "valid"
         /\ Called("rpc")
         /\ Called("llm")
         /\ last.op = "increment_message_usage"
         /\ PlusExpired(last.pre, last.at) )
          => req.ai_model = FlashLite
====
